---- MODULE Spec2Model ----
(***************************************************************************)
(* PLAN.EX: the planner store (courses, units, tasks, exams, completion    *)
(* state, undo stack) and the habits store (habits, per-day logs, record   *)
(* store), as state machines driven by the operations of the two context   *)
(* providers.                                                              *)
(***************************************************************************)
EXTENDS Integers, Sequences, FiniteSets, TLC

(* ------------------------------ limits -------------------------------- *)

MAX_COURSES == 20
MAX_UNITS_PER_COURSE == 30
MAX_TASKS_PER_UNIT == 100
MAX_EXAMS_PER_COURSE == 20
MAX_HABITS == 50
MAX_UNDO_STACK == 15
MAX_PDF_SIZE_MB == 50
MAX_TITLE_LENGTH == 200
\* the wait of the debounced saves, in ms
WAIT == 500
\* calculateHabitStreak: days walked back, days that count for the current
\* streak, and misses a weeklyTarget habit is forgiven
STREAK_DAYS == 365
RECENT_DAYS == 30
MISS_TOLERANCE == 7
\* calculateHabitScore: the days of the window
SCORE_DAYS == 30

(* ------------------------------ bounds -------------------------------- *)

\* number of ids generateId hands out in one behaviour
MaxIds == 4
\* last clock value (new Date())
MaxClock == 1
\* how far below its limit a collection starts in the capacity specification
CapSlack == 1
\* how far below MAX_UNDO_STACK the stack starts in the undo specification
UndoSlack == 2
\* undo snapshots pushed in one behaviour
MaxPushes == 2
\* calendar days a habit is logged on
MaxDates == 1
\* record-store requests in flight at once
MaxPending == 1
\* steps in which the clock of the timers crosses one wait
Granularity == 2
\* backup documents exported in one behaviour
MaxDownloads == 1
\* storage keys that hold a text someone else wrote
MaxStoredKeys == 2
\* last calendar day a habit is asked about, and the longest interval
MaxDay == 4
MaxInterval == 3
\* how many of the most recent days can hold a habit log
MaxLogSpan == 21
\* how many of the most recent days can hold a log when a score is asked for
MaxScoreLogs == 3

VARIABLES
    state,        \* PlannerState of PlannerProvider
    hstate,       \* HabitsState of HabitsProvider
    localStorage, \* the persisted key-value aggregates (parsed and validated)
    logStore,     \* record store 'habitLogs' (keyPath [habitId, dateISO])
    dbQueue,      \* record-store requests in flight, in creation order
    nextId,       \* generateId: ids handed out so far + 1
    now,          \* the clock read by new Date()
    pushes,       \* number of undo snapshots pushed so far
    acked,        \* (habitId, dateISO) -> arguments of the last logHabit that completed
    last,         \* the operation performed last, with its arguments
    timers,       \* pending setTimeout callbacks of the debounced saves, oldest first
    toast,        \* the toast raised last by a page
    download,     \* the backup documents handed to the browser, oldest first
    settings,     \* AppSettings of AppProvider
    frame,        \* the locals of the utility function that is running
    noteStore     \* record store 'lectureNotes' (keyPath id)

vars == <<state, hstate, localStorage, logStore, dbQueue, nextId, now, pushes, acked, last,
          timers, toast, download, settings, frame, noteStore>>

\* the defaults of a first run; an optional field is the set of its values
DEFAULT_APP_SETTINGS == [theme |-> "system", lastBackupISO |-> {}]

\* nothing is scheduled, shown or downloaded, and the record store holds the
\* payloads of the notes an earlier session left behind
Idle ==
    /\ timers = <<>>
    /\ toast = "none"
    /\ download = <<>>
    /\ settings = DEFAULT_APP_SETTINGS
    /\ frame = [fn |-> "none"]
    /\ noteStore = {[id |-> n.id, courseId |-> n.courseId] :
                       n \in {localStorage.lectureNotesMeta[i] :
                                 i \in 1..Len(localStorage.lectureNotesMeta)}}

\* a step seen from the stores alone: the timers, the toasts, the downloads and
\* the settings are out of the picture
StoresOnly == UNCHANGED <<timers, toast, download, settings, frame, noteStore>>

TaskStatus == {"todo", "in-progress", "review", "done"}

(* --------------------------- array helpers ---------------------------- *)

\* Array.prototype.includes
Includes(s, x) == \E i \in 1..Len(s) : s[i] = x

\* Array.prototype.map
Map(s, F(_)) == [i \in 1..Len(s) |-> F(s[i])]

\* Array.prototype.slice(begin, end) with JavaScript's index normalisation
Max2(a, b) == IF a > b THEN a ELSE b
Min2(a, b) == IF a < b THEN a ELSE b
NormIndex(len, k) == IF k < 0 THEN Max2(len + k, 0) ELSE Min2(k, len)
Slice(s, begin, end) == SubSeq(s, NormIndex(Len(s), begin) + 1, NormIndex(Len(s), end))
SliceFrom(s, begin) == Slice(s, begin, Len(s))

\* { ...record, [key]: value } and delete record[key]
RecordSet(h, k, v) == [x \in (DOMAIN h) \cup {k} |-> IF x = k THEN v ELSE h[x]]
RecordDelete(h, k) == [x \in (DOMAIN h) \ {k} |-> h[x]]

(* ----------------------------- reducer -------------------------------- *)

initialState ==
    [courses |-> <<>>,
     completionState |-> [completedTaskIds |-> <<>>, completionHistory |-> <<>>],
     undoStack |-> <<>>,
     personalTasks |-> <<>>,
     lectureNotesMeta |-> <<>>,
     isLoading |-> TRUE,
     error |-> "null"]

LOAD_DATA(s, p) ==
    [s EXCEPT !.courses = p.courses,
              !.completionState = p.completionState,
              !.undoStack = p.undoStack,
              !.personalTasks = p.personalTasks,
              !.lectureNotesMeta = p.lectureNotesMeta,
              !.isLoading = FALSE]

SET_ERROR(s, msg) == [s EXCEPT !.error = msg]

ADD_COURSE(s, course) == [s EXCEPT !.courses = Append(s.courses, course)]

DELETE_COURSE(s, id) ==
    [s EXCEPT !.courses = SelectSeq(s.courses, LAMBDA c : c.id # id)]

ADD_UNIT(s, courseId, unit) ==
    [s EXCEPT !.courses = Map(s.courses,
        LAMBDA c : IF c.id = courseId
                   THEN [c EXCEPT !.units = Append(c.units, unit)]
                   ELSE c)]

DELETE_UNIT(s, courseId, unitId) ==
    [s EXCEPT !.courses = Map(s.courses,
        LAMBDA c : IF c.id = courseId
                   THEN [c EXCEPT !.units = SelectSeq(c.units, LAMBDA u : u.id # unitId)]
                   ELSE c)]

\* courses.map(c => c.id === courseId ? {...c, units: c.units.map(u =>
\*   u.id === unitId ? {...u, tasks: F(u.tasks)} : u)} : c)
MapTasks(courses, courseId, unitId, F(_)) ==
    Map(courses,
        LAMBDA c : IF c.id = courseId
                   THEN [c EXCEPT !.units = Map(c.units,
                            LAMBDA u : IF u.id = unitId
                                       THEN [u EXCEPT !.tasks = F(u.tasks)]
                                       ELSE u)]
                   ELSE c)

ADD_TASK(s, courseId, unitId, task) ==
    [s EXCEPT !.courses = MapTasks(s.courses, courseId, unitId,
                                   LAMBDA ts : Append(ts, task))]

UPDATE_TASK(s, courseId, unitId, taskId, status) ==
    [s EXCEPT !.courses = MapTasks(s.courses, courseId, unitId,
        LAMBDA ts : Map(ts, LAMBDA t : IF t.id = taskId
                                       THEN [t EXCEPT !.status = status]
                                       ELSE t))]

\* DELETE_TASK without the purge of completionHistory
DELETE_TASK_keepsHistory(s, courseId, unitId, taskId) ==
    LET newCompletedIds == SelectSeq(s.completionState.completedTaskIds,
                                     LAMBDA id : id # taskId)
    IN [s EXCEPT !.courses = MapTasks(s.courses, courseId, unitId,
                     LAMBDA ts : SelectSeq(ts, LAMBDA t : t.id # taskId)),
                 !.completionState = [completedTaskIds |-> newCompletedIds,
                                      completionHistory |->
                                          s.completionState.completionHistory]]

DELETE_TASK(s, courseId, unitId, taskId) ==
    LET newCompletedIds == SelectSeq(s.completionState.completedTaskIds,
                                     LAMBDA id : id # taskId)
        newHistory == RecordDelete(s.completionState.completionHistory, taskId)
    IN [s EXCEPT !.courses = MapTasks(s.courses, courseId, unitId,
                     LAMBDA ts : SelectSeq(ts, LAMBDA t : t.id # taskId)),
                 !.completionState = [completedTaskIds |-> newCompletedIds,
                                      completionHistory |-> newHistory]]

HasTask(unit, taskId) == \E k \in 1..Len(unit.tasks) : unit.tasks[k].id = taskId

\* indexes of the courses that hold the task in one of their units
CoursesWithTask(courses, taskId) ==
    {i \in 1..Len(courses) :
        \E j \in 1..Len(courses[i].units) : HasTask(courses[i].units[j], taskId)}

SetMax(S) == CHOOSE x \in S : \A y \in S : y <= x
SetMin(S) == CHOOSE x \in S : \A y \in S : x <= y

\* the for-loops of TOGGLE_TASK_COMPLETION: every course that holds the task
\* reassigns newCourses from state.courses (the break leaves the unit loop only),
\* so the last such course, and its first unit with the task, decide the result
SetStatusWhereFound(courses, taskId, newStatus) ==
    IF CoursesWithTask(courses, taskId) = {}
    THEN courses
    ELSE LET ci == SetMax(CoursesWithTask(courses, taskId))
             ui == SetMin({j \in 1..Len(courses[ci].units) :
                              HasTask(courses[ci].units[j], taskId)})
         IN MapTasks(courses, courses[ci].id, courses[ci].units[ui].id,
                LAMBDA ts : Map(ts, LAMBDA t : IF t.id = taskId
                                               THEN [t EXCEPT !.status = newStatus]
                                               ELSE t))

\* TOGGLE_TASK_COMPLETION without delete newHistory[taskId]
TOGGLE_TASK_COMPLETION_keepsHistory(s, taskId) ==
    LET isCompleted == Includes(s.completionState.completedTaskIds, taskId)
        newCompletedIds ==
            IF isCompleted
            THEN SelectSeq(s.completionState.completedTaskIds, LAMBDA id : id # taskId)
            ELSE Append(s.completionState.completedTaskIds, taskId)
        newHistory ==
            IF isCompleted
            THEN s.completionState.completionHistory
            ELSE RecordSet(s.completionState.completionHistory, taskId, now)
        newStatus == IF isCompleted THEN "todo" ELSE "done"
    IN [s EXCEPT !.courses = SetStatusWhereFound(s.courses, taskId, newStatus),
                 !.completionState = [completedTaskIds |-> newCompletedIds,
                                      completionHistory |-> newHistory]]

TOGGLE_TASK_COMPLETION(s, taskId) ==
    LET isCompleted == Includes(s.completionState.completedTaskIds, taskId)
        newCompletedIds ==
            IF isCompleted
            THEN SelectSeq(s.completionState.completedTaskIds, LAMBDA id : id # taskId)
            ELSE Append(s.completionState.completedTaskIds, taskId)
        newHistory ==
            IF isCompleted
            THEN RecordDelete(s.completionState.completionHistory, taskId)
            ELSE RecordSet(s.completionState.completionHistory, taskId, now)
        newStatus == IF isCompleted THEN "todo" ELSE "done"
    IN [s EXCEPT !.courses = SetStatusWhereFound(s.courses, taskId, newStatus),
                 !.completionState = [completedTaskIds |-> newCompletedIds,
                                      completionHistory |-> newHistory]]

UPDATE_TASK_STATUS(s, taskId, status, courseId, unitId) ==
    LET ids == s.completionState.completedTaskIds
        hist == s.completionState.completionHistory
        add == status = "done" /\ ~Includes(ids, taskId)
        remove == status # "done" /\ Includes(ids, taskId)
        newCompletedIds ==
            IF add THEN Append(ids, taskId)
            ELSE IF remove THEN SelectSeq(ids, LAMBDA id : id # taskId)
            ELSE ids
        newHistory ==
            IF add THEN RecordSet(hist, taskId, now)
            ELSE IF remove THEN RecordDelete(hist, taskId)
            ELSE hist
    IN [s EXCEPT !.courses = MapTasks(s.courses, courseId, unitId,
                     LAMBDA ts : Map(ts, LAMBDA t : IF t.id = taskId
                                                    THEN [t EXCEPT !.status = status]
                                                    ELSE t)),
                 !.completionState = [completedTaskIds |-> newCompletedIds,
                                      completionHistory |-> newHistory]]

ADD_EXAM(s, courseId, exam) ==
    [s EXCEPT !.courses = Map(s.courses,
        LAMBDA c : IF c.id = courseId
                   THEN [c EXCEPT !.exams = Append(c.exams, exam)]
                   ELSE c)]

DELETE_EXAM(s, courseId, examId) ==
    [s EXCEPT !.courses = Map(s.courses,
        LAMBDA c : IF c.id = courseId
                   THEN [c EXCEPT !.exams = SelectSeq(c.exams, LAMBDA e : e.id # examId)]
                   ELSE c)]

ADD_PERSONAL_TASK(s, task) == [s EXCEPT !.personalTasks = Append(s.personalTasks, task)]

DELETE_PERSONAL_TASK(s, id) ==
    [s EXCEPT !.personalTasks = SelectSeq(s.personalTasks, LAMBDA t : t.id # id)]

ADD_LECTURE_NOTE_META(s, meta) ==
    [s EXCEPT !.lectureNotesMeta = Append(s.lectureNotesMeta, meta)]

DELETE_LECTURE_NOTE_META(s, id) ==
    [s EXCEPT !.lectureNotesMeta = SelectSeq(s.lectureNotesMeta, LAMBDA n : n.id # id)]

\* PUSH_UNDO_SNAPSHOT sharing one history object with later states: the snapshot
\* then shows the history without the keys removed afterwards
PUSH_UNDO_SNAPSHOT_emptyHistory(s) ==
    LET snapshot == [timestamp |-> now,
                     completedTaskIds |-> s.completionState.completedTaskIds,
                     completionHistory |-> <<>>]
    IN [s EXCEPT !.undoStack =
            Append(SliceFrom(s.undoStack, -MAX_UNDO_STACK + 1), snapshot)]

\* PUSH_UNDO_SNAPSHOT with slice(-MAX_UNDO_STACK)
PUSH_UNDO_SNAPSHOT_keepsAll(s) ==
    LET snapshot == [timestamp |-> now,
                     completedTaskIds |-> s.completionState.completedTaskIds,
                     completionHistory |-> s.completionState.completionHistory]
    IN [s EXCEPT !.undoStack =
            Append(SliceFrom(s.undoStack, -MAX_UNDO_STACK), snapshot)]

PUSH_UNDO_SNAPSHOT(s) ==
    LET snapshot == [timestamp |-> now,
                     completedTaskIds |-> s.completionState.completedTaskIds,
                     completionHistory |-> s.completionState.completionHistory]
    IN [s EXCEPT !.undoStack =
            Append(SliceFrom(s.undoStack, -MAX_UNDO_STACK + 1), snapshot)]

\* UNDO that also sets every task's status from the restored snapshot
UNDO_restoresStatus(s) ==
    IF Len(s.undoStack) = 0
    THEN s
    ELSE LET lastSnapshot == s.undoStack[Len(s.undoStack)]
         IN [s EXCEPT !.completionState =
                          [completedTaskIds |-> lastSnapshot.completedTaskIds,
                           completionHistory |-> lastSnapshot.completionHistory],
                      !.undoStack = Slice(s.undoStack, 0, -1),
                      !.courses = Map(s.courses, LAMBDA c :
                          [c EXCEPT !.units = Map(c.units, LAMBDA u :
                              [u EXCEPT !.tasks = Map(u.tasks, LAMBDA t :
                                  [t EXCEPT !.status =
                                      IF Includes(lastSnapshot.completedTaskIds, t.id)
                                      THEN "done"
                                      ELSE IF t.status = "done" THEN "todo"
                                      ELSE t.status])])])]

UNDO(s) ==
    IF Len(s.undoStack) = 0
    THEN s
    ELSE LET lastSnapshot == s.undoStack[Len(s.undoStack)]
         IN [s EXCEPT !.completionState =
                          [completedTaskIds |-> lastSnapshot.completedTaskIds,
                           completionHistory |-> lastSnapshot.completionHistory],
                      !.undoStack = Slice(s.undoStack, 0, -1)]

\* IMPORT_DATA without undoStack: []
IMPORT_DATA_keepsUndoStack(s, p) ==
    [s EXCEPT !.courses = p.courses,
              !.completionState = p.completionState,
              !.personalTasks = p.personalTasks]

IMPORT_DATA(s, p) ==
    [s EXCEPT !.courses = p.courses,
              !.completionState = p.completionState,
              !.personalTasks = p.personalTasks,
              !.undoStack = <<>>]

plannerReducer(s, a) ==
    CASE a.type = "LOAD_DATA" -> LOAD_DATA(s, a.payload)
      [] a.type = "SET_ERROR" -> SET_ERROR(s, a.payload)
      [] a.type = "ADD_COURSE" -> ADD_COURSE(s, a.payload)
      [] a.type = "DELETE_COURSE" -> DELETE_COURSE(s, a.payload)
      [] a.type = "ADD_UNIT" -> ADD_UNIT(s, a.courseId, a.unit)
      [] a.type = "DELETE_UNIT" -> DELETE_UNIT(s, a.courseId, a.unitId)
      [] a.type = "ADD_TASK" -> ADD_TASK(s, a.courseId, a.unitId, a.task)
      [] a.type = "UPDATE_TASK" -> UPDATE_TASK(s, a.courseId, a.unitId, a.taskId, a.status)
      [] a.type = "DELETE_TASK" -> DELETE_TASK(s, a.courseId, a.unitId, a.taskId)
      [] a.type = "TOGGLE_TASK_COMPLETION" -> TOGGLE_TASK_COMPLETION(s, a.payload)
      [] a.type = "UPDATE_TASK_STATUS" ->
            UPDATE_TASK_STATUS(s, a.taskId, a.status, a.courseId, a.unitId)
      [] a.type = "ADD_EXAM" -> ADD_EXAM(s, a.courseId, a.exam)
      [] a.type = "DELETE_EXAM" -> DELETE_EXAM(s, a.courseId, a.examId)
      [] a.type = "ADD_PERSONAL_TASK" -> ADD_PERSONAL_TASK(s, a.payload)
      [] a.type = "DELETE_PERSONAL_TASK" -> DELETE_PERSONAL_TASK(s, a.payload)
      [] a.type = "ADD_LECTURE_NOTE_META" -> ADD_LECTURE_NOTE_META(s, a.payload)
      [] a.type = "DELETE_LECTURE_NOTE_META" -> DELETE_LECTURE_NOTE_META(s, a.payload)
      [] a.type = "PUSH_UNDO_SNAPSHOT" -> PUSH_UNDO_SNAPSHOT(s)
      [] a.type = "UNDO" -> UNDO(s)
      [] a.type = "IMPORT_DATA" -> IMPORT_DATA(s, a.payload)
      [] OTHER -> s

(* ------------------------ what the views can name --------------------- *)

SeqToSet(s) == {s[i] : i \in 1..Len(s)}

CourseIds(s) == {c.id : c \in SeqToSet(s.courses)}
FindCourse(s, courseId) ==
    LET hits == {i \in 1..Len(s.courses) : s.courses[i].id = courseId}
    IN IF hits = {} THEN <<>> ELSE <<s.courses[SetMin(hits)]>>
UnitIdsOf(course) == {u.id : u \in SeqToSet(course.units)}
FindUnit(course, unitId) ==
    LET hits == {j \in 1..Len(course.units) : course.units[j].id = unitId}
    IN IF hits = {} THEN <<>> ELSE <<course.units[SetMin(hits)]>>
TaskIdsOf(unit) == {t.id : t \in SeqToSet(unit.tasks)}

\* every task of every unit of every course
AllTasks(s) ==
    UNION {UNION {SeqToSet(u.tasks) : u \in SeqToSet(c.units)} : c \in SeqToSet(s.courses)}
AllTaskIds(s) == {t.id : t \in AllTasks(s)}

\* the (courseId, unitId, taskId) triples a course page shows
TaskTriples(s) ==
    UNION {UNION {{<<c.id, u.id, t.id>> : t \in SeqToSet(u.tasks)}
                  : u \in SeqToSet(c.units)} : c \in SeqToSet(s.courses)}
UnitPairs(s) ==
    UNION {{<<c.id, u.id>> : u \in SeqToSet(c.units)} : c \in SeqToSet(s.courses)}
ExamPairs(s) ==
    UNION {{<<c.id, e.id>> : e \in SeqToSet(c.exams)} : c \in SeqToSet(s.courses)}

(* ------------------------- PlannerProvider ---------------------------- *)

NotPlanner == UNCHANGED <<hstate, localStorage, logStore, dbQueue, acked>>

\* the mount effect dispatches LOAD_DATA before a handler of a view can run
Ready == ~state.isLoading

\* generateId can hand out n more ids
CanGenerate(n) == nextId + n - 1 <= MaxIds

\* the capacity checks of addCourse, addUnit, addTask (unit is <<>> when the
\* course or the unit is not found) and addExam
addCourse_atCapacity_above(s) == Len(s.courses) > MAX_COURSES
addCourse_atCapacity(s) == Len(s.courses) >= MAX_COURSES
addUnit_atCapacity(course) == Len(course.units) >= MAX_UNITS_PER_COURSE
addTask_atCapacity_above(unit) == unit # <<>> /\ Len(unit[1].tasks) > MAX_TASKS_PER_UNIT
addTask_atCapacity(unit) == unit # <<>> /\ Len(unit[1].tasks) >= MAX_TASKS_PER_UNIT
addExam_atCapacity(course) == Len(course.exams) >= MAX_EXAMS_PER_COURSE

\* useEffect on mount: read the five aggregates and dispatch LOAD_DATA
loadData ==
    /\ state.isLoading
    /\ state' = plannerReducer(state,
           [type |-> "LOAD_DATA",
            payload |-> [courses |-> localStorage.courses,
                         completionState |-> localStorage.completionState,
                         undoStack |-> localStorage.undoStack,
                         personalTasks |-> localStorage.personalTasks,
                         lectureNotesMeta |-> localStorage.lectureNotesMeta]])
    /\ last' = [op |-> "loadData"]
    /\ UNCHANGED <<nextId, now, pushes>>
    /\ NotPlanner

addCourse(title) ==
    /\ Ready
    /\ IF addCourse_atCapacity(state)
       THEN /\ state' = plannerReducer(state, [type |-> "SET_ERROR", payload |-> "MAX_COURSES"])
            /\ last' = [op |-> "addCourse", blocked |-> TRUE]
            /\ UNCHANGED nextId
       ELSE /\ CanGenerate(2)
            /\ state' = plannerReducer(state,
                   [type |-> "ADD_COURSE",
                    payload |-> [id |-> nextId, title |-> title,
                                 units |-> <<[id |-> nextId + 1, order |-> 0, tasks |-> <<>>]>>,
                                 exams |-> <<>>]])
            /\ last' = [op |-> "addCourse", blocked |-> FALSE]
            /\ nextId' = nextId + 2
    /\ UNCHANGED <<now, pushes>>
    /\ NotPlanner

deleteCourse(id) ==
    /\ Ready
    /\ state' = plannerReducer(state, [type |-> "DELETE_COURSE", payload |-> id])
    /\ last' = [op |-> "deleteCourse"]
    /\ UNCHANGED <<nextId, now, pushes>>
    /\ NotPlanner

addUnit(courseId) ==
    /\ Ready
    /\ LET found == FindCourse(state, courseId)
       IN IF found = <<>>
          THEN /\ UNCHANGED <<state, nextId>>
               /\ last' = [op |-> "addUnit", courseId |-> courseId, blocked |-> FALSE]
          ELSE IF addUnit_atCapacity(found[1])
          THEN /\ state' = plannerReducer(state,
                      [type |-> "SET_ERROR", payload |-> "MAX_UNITS_PER_COURSE"])
               /\ last' = [op |-> "addUnit", courseId |-> courseId, blocked |-> TRUE]
               /\ UNCHANGED nextId
          ELSE /\ CanGenerate(1)
               /\ state' = plannerReducer(state,
                      [type |-> "ADD_UNIT", courseId |-> courseId,
                       unit |-> [id |-> nextId, order |-> Len(found[1].units),
                                 tasks |-> <<>>]])
               /\ last' = [op |-> "addUnit", courseId |-> courseId, blocked |-> FALSE]
               /\ nextId' = nextId + 1
    /\ UNCHANGED <<now, pushes>>
    /\ NotPlanner

deleteUnit(courseId, unitId) ==
    /\ Ready
    /\ state' = plannerReducer(state,
           [type |-> "DELETE_UNIT", courseId |-> courseId, unitId |-> unitId])
    /\ last' = [op |-> "deleteUnit"]
    /\ UNCHANGED <<nextId, now, pushes>>
    /\ NotPlanner

\* options carries the status chosen in the task form
addTask(courseId, unitId, status) ==
    /\ Ready
    /\ LET course == FindCourse(state, courseId)
           unit == IF course = <<>> THEN <<>> ELSE FindUnit(course[1], unitId)
       IN IF addTask_atCapacity(unit)
          THEN /\ state' = plannerReducer(state,
                      [type |-> "SET_ERROR", payload |-> "MAX_TASKS_PER_UNIT"])
               /\ last' = [op |-> "addTask", courseId |-> courseId, unitId |-> unitId,
                           blocked |-> TRUE]
               /\ UNCHANGED nextId
          ELSE /\ CanGenerate(1)
               /\ state' = plannerReducer(state,
                      [type |-> "ADD_TASK", courseId |-> courseId, unitId |-> unitId,
                       task |-> [id |-> nextId, status |-> status]])
               /\ last' = [op |-> "addTask", courseId |-> courseId, unitId |-> unitId,
                           blocked |-> FALSE]
               /\ nextId' = nextId + 1
    /\ UNCHANGED <<now, pushes>>
    /\ NotPlanner

updateTask(courseId, unitId, taskId, status) ==
    /\ Ready
    /\ state' = plannerReducer(state,
           [type |-> "UPDATE_TASK", courseId |-> courseId, unitId |-> unitId,
            taskId |-> taskId, status |-> status])
    /\ last' = [op |-> "updateTask"]
    /\ UNCHANGED <<nextId, now, pushes>>
    /\ NotPlanner

deleteTask(courseId, unitId, taskId) ==
    /\ Ready
    /\ state' = plannerReducer(state,
           [type |-> "DELETE_TASK", courseId |-> courseId, unitId |-> unitId,
            taskId |-> taskId])
    /\ last' = [op |-> "deleteTask", taskId |-> taskId,
                wasCompleted |-> Includes(state.completionState.completedTaskIds, taskId)]
    /\ UNCHANGED <<nextId, now, pushes>>
    /\ NotPlanner

toggleTaskCompletion(taskId) ==
    /\ Ready
    /\ pushes < MaxPushes
    /\ state' = plannerReducer(plannerReducer(state, [type |-> "PUSH_UNDO_SNAPSHOT"]),
                               [type |-> "TOGGLE_TASK_COMPLETION", payload |-> taskId])
    /\ pushes' = pushes + 1
    /\ last' = [op |-> "toggleTaskCompletion",
                full |-> Len(state.undoStack) >= MAX_UNDO_STACK]
    /\ UNCHANGED <<nextId, now>>
    /\ NotPlanner

updateTaskStatus(taskId, status, courseId, unitId) ==
    /\ Ready
    /\ pushes < MaxPushes
    /\ state' = plannerReducer(plannerReducer(state, [type |-> "PUSH_UNDO_SNAPSHOT"]),
                               [type |-> "UPDATE_TASK_STATUS", taskId |-> taskId,
                                status |-> status, courseId |-> courseId,
                                unitId |-> unitId])
    /\ pushes' = pushes + 1
    /\ last' = [op |-> "updateTaskStatus",
                full |-> Len(state.undoStack) >= MAX_UNDO_STACK]
    /\ UNCHANGED <<nextId, now>>
    /\ NotPlanner

undo ==
    /\ Ready
    /\ state' = plannerReducer(state, [type |-> "UNDO"])
    /\ last' = [op |-> "undo",
                afterToggle |-> last.op \in {"toggleTaskCompletion", "updateTaskStatus"},
                popped |-> Len(state.undoStack) > 0]
    /\ UNCHANGED <<nextId, now, pushes>>
    /\ NotPlanner

addExam(courseId) ==
    /\ Ready
    /\ LET found == FindCourse(state, courseId)
       IN IF found = <<>>
          THEN /\ UNCHANGED <<state, nextId>>
               /\ last' = [op |-> "addExam", courseId |-> courseId, blocked |-> FALSE]
          ELSE IF addExam_atCapacity(found[1])
          THEN /\ state' = plannerReducer(state,
                      [type |-> "SET_ERROR", payload |-> "MAX_EXAMS_PER_COURSE"])
               /\ last' = [op |-> "addExam", courseId |-> courseId, blocked |-> TRUE]
               /\ UNCHANGED nextId
          ELSE /\ CanGenerate(1)
               /\ state' = plannerReducer(state,
                      [type |-> "ADD_EXAM", courseId |-> courseId,
                       exam |-> [id |-> nextId]])
               /\ last' = [op |-> "addExam", courseId |-> courseId, blocked |-> FALSE]
               /\ nextId' = nextId + 1
    /\ UNCHANGED <<now, pushes>>
    /\ NotPlanner

deleteExam(courseId, examId) ==
    /\ Ready
    /\ state' = plannerReducer(state,
           [type |-> "DELETE_EXAM", courseId |-> courseId, examId |-> examId])
    /\ last' = [op |-> "deleteExam"]
    /\ UNCHANGED <<nextId, now, pushes>>
    /\ NotPlanner

addPersonalTask(status) ==
    /\ Ready
    /\ CanGenerate(1)
    /\ state' = plannerReducer(state,
           [type |-> "ADD_PERSONAL_TASK", payload |-> [id |-> nextId, status |-> status]])
    /\ nextId' = nextId + 1
    /\ last' = [op |-> "addPersonalTask"]
    /\ UNCHANGED <<now, pushes>>
    /\ NotPlanner

deletePersonalTask(id) ==
    /\ Ready
    /\ state' = plannerReducer(state, [type |-> "DELETE_PERSONAL_TASK", payload |-> id])
    /\ last' = [op |-> "deletePersonalTask"]
    /\ UNCHANGED <<nextId, now, pushes>>
    /\ NotPlanner

addLectureNoteMeta(courseId) ==
    /\ Ready
    /\ CanGenerate(1)
    /\ state' = plannerReducer(state,
           [type |-> "ADD_LECTURE_NOTE_META",
            payload |-> [id |-> nextId, courseId |-> courseId]])
    /\ nextId' = nextId + 1
    /\ last' = [op |-> "addLectureNoteMeta"]
    /\ UNCHANGED <<now, pushes>>
    /\ NotPlanner

deleteLectureNoteMeta(id) ==
    /\ Ready
    /\ state' = plannerReducer(state, [type |-> "DELETE_LECTURE_NOTE_META", payload |-> id])
    /\ last' = [op |-> "deleteLectureNoteMeta"]
    /\ UNCHANGED <<nextId, now, pushes>>
    /\ NotPlanner

importData(courses, completionState, personalTasks) ==
    /\ Ready
    /\ state' = plannerReducer(state,
           [type |-> "IMPORT_DATA",
            payload |-> [courses |-> courses, completionState |-> completionState,
                         personalTasks |-> personalTasks]])
    /\ last' = [op |-> "importData",
                payload |-> [courses |-> courses, completionState |-> completionState,
                             personalTasks |-> personalTasks],
                hadSnapshot |-> Len(state.undoStack) > 0]
    /\ UNCHANGED <<nextId, now, pushes>>
    /\ NotPlanner

\* time passes between two events
Tick ==
    /\ now < MaxClock
    /\ now' = now + 1
    /\ last' = [op |-> "tick"]
    /\ UNCHANGED <<state, hstate, localStorage, logStore, dbQueue, nextId, pushes, acked>>

(* --------------------------- habitsReducer ---------------------------- *)

\* state.habitLogs.get(habitId) || []
\* allLogs.forEach(log => habitLogs.set(log.habitId, [...existing, log]))
GroupByHabit(logs) ==
    [h \in {logs[i].habitId : i \in 1..Len(logs)} |->
        SelectSeq(logs, LAMBDA l : l.habitId = h)]

GetLogs(hs, habitId) ==
    IF habitId \in DOMAIN hs.habitLogs THEN hs.habitLogs[habitId] ELSE <<>>

habits_LOAD_DATA(hs, p) ==
    [hs EXCEPT !.habits = p.habits, !.habitLogs = p.habitLogs, !.isLoading = FALSE]

\* SET_ERROR that also ends the loading
habits_SET_ERROR_endsLoading(hs, msg) == [hs EXCEPT !.error = msg, !.isLoading = FALSE]
habits_SET_ERROR(hs, msg) == [hs EXCEPT !.error = msg]

ADD_HABIT(hs, habit) == [hs EXCEPT !.habits = Append(hs.habits, habit)]

\* LOG_HABIT without the filter on dateISO
LOG_HABIT_appends(hs, log) ==
    [hs EXCEPT !.habitLogs =
        RecordSet(hs.habitLogs, log.habitId, Append(GetLogs(hs, log.habitId), log))]

LOG_HABIT(hs, log) ==
    LET existingLogs == GetLogs(hs, log.habitId)
        filteredLogs == SelectSeq(existingLogs, LAMBDA l : l.dateISO # log.dateISO)
    IN [hs EXCEPT !.habitLogs =
           RecordSet(hs.habitLogs, log.habitId, Append(filteredLogs, log))]

DELETE_HABIT(hs, id) ==
    [hs EXCEPT !.habits = SelectSeq(hs.habits, LAMBDA h : h.id # id),
               !.habitLogs = RecordDelete(hs.habitLogs, id)]

IMPORT_HABITS(hs, p) ==
    [hs EXCEPT !.habits = p.habits, !.habitLogs = GroupByHabit(p.logs)]

habitsReducer(hs, a) ==
    CASE a.type = "LOAD_DATA" -> habits_LOAD_DATA(hs, a.payload)
      [] a.type = "SET_ERROR" -> habits_SET_ERROR(hs, a.payload)
      [] a.type = "ADD_HABIT" -> ADD_HABIT(hs, a.payload)
      [] a.type = "DELETE_HABIT" -> DELETE_HABIT(hs, a.payload)
      [] a.type = "LOG_HABIT" -> LOG_HABIT(hs, a.payload)
      [] a.type = "IMPORT_HABITS" -> IMPORT_HABITS(hs, a.payload)
      [] OTHER -> hs

(* ---------------------- record store 'habitLogs' ---------------------- *)

SameKey(a, b) == a.habitId = b.habitId /\ a.dateISO = b.dateISO

\* store.put(log) under keyPath [habitId, dateISO]: insert or replace
StorePut(store, log) == {l \in store : ~SameKey(l, log)} \cup {log}

\* store.getAll(): the records in key order
RECURSIVE InKeyOrder(_)
InKeyOrder(store) ==
    IF store = {}
    THEN <<>>
    ELSE LET first == CHOOSE l \in store : \A m \in store :
                         \/ l.habitId < m.habitId
                         \/ l.habitId = m.habitId /\ l.dateISO <= m.dateISO
         IN <<first>> \o InKeyOrder(store \ {first})

\* index('habitId').getAll(habitId)
LogsOfHabit(store, habitId) == {l \in store : l.habitId = habitId}

\* store.delete([log.habitId, log.dateISO]) for each of the logs
StoreDelete(store, logs) == {l \in store : ~\E m \in logs : SameKey(l, m)}

(* -------------------------- HabitsProvider ---------------------------- *)

NotHabits == UNCHANGED <<state, localStorage, pushes>>

HabitIds(hs) == {h.id : h \in SeqToSet(hs.habits)}

addHabit_atCapacity(hs) == Len(hs.habits) >= MAX_HABITS

addHabit(habitData) ==
    /\ IF addHabit_atCapacity(hstate)
       THEN /\ hstate' = habitsReducer(hstate, [type |-> "SET_ERROR", payload |-> "MAX_HABITS"])
            /\ last' = [op |-> "addHabit", blocked |-> TRUE]
            /\ UNCHANGED nextId
       ELSE /\ CanGenerate(1)
            /\ hstate' = habitsReducer(hstate,
                   [type |-> "ADD_HABIT",
                    payload |-> [id |-> nextId, type |-> habitData.type,
                                 frequency |-> habitData.frequency,
                                 manualOrder |-> Len(hstate.habits),
                                 isArchived |-> FALSE, createdAt |-> now]])
            /\ last' = [op |-> "addHabit", blocked |-> FALSE]
            /\ nextId' = nextId + 1
    /\ UNCHANGED <<logStore, dbQueue, now, acked>>
    /\ NotHabits

\* the requests of the given kinds that are in flight
InFlight(kinds) == Cardinality({i \in 1..Len(dbQueue) : dbQueue[i].kind \in kinds})

\* logHabit dispatching LOG_HABIT before the put is awaited
logHabit_optimistic(habitId, dateISO, done, value) ==
    /\ InFlight({"saveHabitLog"}) < MaxPending
    /\ LET log == [habitId |-> habitId, dateISO |-> dateISO, done |-> done,
                   value |-> value, timestamp |-> now]
       IN /\ dbQueue' = Append(dbQueue, [kind |-> "saveHabitLog", log |-> log])
          /\ hstate' = habitsReducer(hstate, [type |-> "LOG_HABIT", payload |-> log])
    /\ last' = [op |-> "logHabit"]
    /\ UNCHANGED <<logStore, nextId, now, acked>>
    /\ NotHabits

\* logHabit up to its await: the log is built and the put is requested
logHabit(habitId, dateISO, done, value) ==
    /\ InFlight({"saveHabitLog"}) < MaxPending
    /\ dbQueue' = Append(dbQueue,
           [kind |-> "saveHabitLog",
            log |-> [habitId |-> habitId, dateISO |-> dateISO, done |-> done,
                     value |-> value, timestamp |-> now]])
    /\ last' = [op |-> "logHabit"]
    /\ UNCHANGED <<hstate, logStore, nextId, now, acked>>
    /\ NotHabits

\* deleteHabit dispatching DELETE_HABIT before the cascade is awaited
deleteHabit_removesFirst(id) ==
    /\ InFlight({"getHabitLogsByHabitId", "deleteHabitLogs"}) < MaxPending
    /\ dbQueue' = Append(dbQueue, [kind |-> "getHabitLogsByHabitId", habitId |-> id])
    /\ hstate' = habitsReducer(hstate, [type |-> "DELETE_HABIT", payload |-> id])
    /\ last' = [op |-> "deleteHabit"]
    /\ UNCHANGED <<logStore, nextId, now, acked>>
    /\ NotHabits

\* deleteHabit up to its first await: the logs of the habit are requested
deleteHabit(id) ==
    /\ InFlight({"getHabitLogsByHabitId", "deleteHabitLogs"}) < MaxPending
    /\ dbQueue' = Append(dbQueue, [kind |-> "getHabitLogsByHabitId", habitId |-> id])
    /\ last' = [op |-> "deleteHabit"]
    /\ UNCHANGED <<hstate, logStore, nextId, now, acked>>
    /\ NotHabits

\* importHabits: a put is requested for every log, none is awaited, and
\* IMPORT_HABITS is dispatched at once
importHabits(habits, logs) ==
    /\ InFlight({"saveImportedLog"}) + Len(logs) <= MaxPending
    /\ dbQueue' = dbQueue \o [i \in 1..Len(logs) |->
                                 [kind |-> "saveImportedLog", log |-> logs[i]]]
    /\ hstate' = habitsReducer(hstate,
           [type |-> "IMPORT_HABITS", payload |-> [habits |-> habits, logs |-> logs]])
    /\ last' = [op |-> "importHabits", logs |-> logs]
    /\ UNCHANGED <<logStore, nextId, now, acked>>
    /\ NotHabits

\* the oldest request succeeds: its effect on the store, then the continuation
\* of the operation that awaited it
requestSucceeds ==
    /\ dbQueue # <<>>
    /\ LET req == Head(dbQueue)
       IN CASE req.kind = "getAllHabitLogs" ->
                 /\ hstate' = habitsReducer(hstate,
                        [type |-> "LOAD_DATA",
                         payload |-> [habits |-> req.habits,
                                      habitLogs |-> GroupByHabit(InKeyOrder(logStore))]])
                 /\ dbQueue' = Tail(dbQueue)
                 /\ last' = [op |-> "habitsLoaded"]
                 /\ UNCHANGED <<logStore, acked>>
            [] req.kind = "saveHabitLog" ->
                 /\ logStore' = StorePut(logStore, req.log)
                 /\ hstate' = habitsReducer(hstate, [type |-> "LOG_HABIT", payload |-> req.log])
                 /\ dbQueue' = Tail(dbQueue)
                 /\ acked' = RecordSet(acked, <<req.log.habitId, req.log.dateISO>>,
                                       [done |-> req.log.done, value |-> req.log.value])
                 /\ last' = [op |-> "habitLogged", done |-> req.log.done,
                             replaced |-> {l.done : l \in {m \in SeqToSet(GetLogs(hstate,
                                              req.log.habitId)) : SameKey(m, req.log)}}]
            [] req.kind = "getHabitLogsByHabitId" ->
                 \* deleteHabitLogsByHabitId after its read: with no logs it resolves
                 \* at once, otherwise it requests the deletes in a new transaction
                 LET logs == LogsOfHabit(logStore, req.habitId)
                 IN IF logs = {}
                    THEN /\ hstate' = habitsReducer(hstate,
                                [type |-> "DELETE_HABIT", payload |-> req.habitId])
                         /\ dbQueue' = Tail(dbQueue)
                         /\ last' = [op |-> "habitDeleted", habitId |-> req.habitId,
                                     logs |-> logs]
                         /\ UNCHANGED <<logStore, acked>>
                    ELSE /\ dbQueue' = Append(Tail(dbQueue),
                                [kind |-> "deleteHabitLogs", habitId |-> req.habitId,
                                 logs |-> logs])
                         /\ last' = [op |-> "habitLogsRead"]
                         /\ UNCHANGED <<hstate, logStore, acked>>
            [] req.kind = "saveImportedLog" ->
                 \* importHabits awaits nothing: the put lands and that is all
                 /\ logStore' = StorePut(logStore, req.log)
                 /\ dbQueue' = Tail(dbQueue)
                 /\ last' = [op |-> "importedLogSaved"]
                 /\ UNCHANGED <<hstate, acked>>
            [] req.kind = "deleteHabitLogs" ->
                 /\ logStore' = StoreDelete(logStore, req.logs)
                 /\ hstate' = habitsReducer(hstate,
                        [type |-> "DELETE_HABIT", payload |-> req.habitId])
                 /\ dbQueue' = Tail(dbQueue)
                 /\ last' = [op |-> "habitDeleted", habitId |-> req.habitId,
                             logs |-> req.logs]
                 /\ UNCHANGED acked
    /\ UNCHANGED <<nextId, now>>
    /\ NotHabits

\* the oldest request fails: the store is unchanged, the awaiting operation
\* catches the rejection and reports it
requestFails ==
    /\ dbQueue # <<>>
    /\ LET req == Head(dbQueue)
       IN /\ hstate' = IF req.kind = "saveImportedLog"
                    THEN hstate   \* .catch(console.error)
                    ELSE habitsReducer(hstate,
                 [type |-> "SET_ERROR",
                  payload |-> CASE req.kind = "getAllHabitLogs" -> "habits could not be loaded"
                                [] req.kind = "saveHabitLog" -> "habit log could not be saved"
                                [] OTHER -> "habit could not be deleted"])
          /\ last' = [op |-> "requestFailed", req |-> req]
    /\ dbQueue' = Tail(dbQueue)
    /\ UNCHANGED <<logStore, nextId, now, acked>>
    /\ NotHabits

(* -------------------------- debounced saves --------------------------- *)

\* the aggregates the save callback of PlannerProvider closes over
Aggregates(s) ==
    [courses |-> s.courses, completionState |-> s.completionState,
     undoStack |-> s.undoStack, personalTasks |-> s.personalTasks,
     lectureNotesMeta |-> s.lectureNotesMeta]

\* the planner's save callback without saveUndoStack
Persist_skipsUndoStack(storage, snapshot) ==
    [storage EXCEPT !.courses = snapshot.courses,
                    !.completionState = snapshot.completionState,
                    !.personalTasks = snapshot.personalTasks,
                    !.lectureNotesMeta = snapshot.lectureNotesMeta]

\* saveCourses, saveCompletionState, saveUndoStack, savePersonalTasks and
\* saveLectureNotesMeta, as the getters read them back
Persist(storage, snapshot) ==
    [storage EXCEPT !.courses = snapshot.courses,
                    !.completionState = snapshot.completionState,
                    !.undoStack = SliceFrom(snapshot.undoStack, -MAX_UNDO_STACK),
                    !.personalTasks = snapshot.personalTasks,
                    !.lectureNotesMeta = snapshot.lectureNotesMeta]

\* saveHabits
PersistHabits(storage, habits) == [storage EXCEPT !.habits = habits]

\* the timers of the debounced functions of one provider that are no longer the
\* provider's current one
Retired(ts, store) ==
    [i \in 1..Len(ts) |-> IF ts[i].store = store THEN [ts[i] EXCEPT !.current = FALSE]
                          ELSE ts[i]]

\* useMemo has built a new debounced function over the snapshot, and the effect
\* has called it: its timer starts beside the timers of the earlier functions
Debounced(ts, store, snapshot) ==
    Append(Retired(ts, store),
           [store |-> store, snapshot |-> snapshot, age |-> 0, current |-> TRUE])

\* the effect has called the current debounced function again: clearTimeout of
\* its pending timer, then setTimeout
DebouncedAgain(ts, store, snapshot) ==
    Append(SelectSeq(ts, LAMBDA t : ~(t.store = store /\ t.current)),
           [store |-> store, snapshot |-> snapshot, age |-> 0, current |-> TRUE])

\* a dispatch of PlannerProvider and the effect that follows its render
PlannerSaves(newFunction) ==
    /\ timers' = IF newFunction
                 THEN Debounced(timers, "planner", Aggregates(state'))
                 ELSE DebouncedAgain(timers, "planner", Aggregates(state'))
    /\ UNCHANGED <<toast, download, settings, frame, noteStore>>

\* a dispatch of HabitsProvider that changes habits or isLoading, and the effect
\* that follows its render
HabitsSaves ==
    /\ timers' = IF hstate'.isLoading THEN timers
                 ELSE IF hstate'.habits # hstate.habits \/ hstate.isLoading
                 THEN Debounced(timers, "habits", hstate'.habits)
                 ELSE timers
    /\ UNCHANGED <<toast, download, settings, frame, noteStore>>

\* time passes while no timer is due
Elapse ==
    /\ timers # <<>>
    /\ \A i \in 1..Len(timers) : timers[i].age < WAIT
    /\ timers' = [i \in 1..Len(timers) |->
                    [timers[i] EXCEPT !.age = Min2(@ + WAIT \div Granularity, WAIT)]]
    /\ last' = [op |-> "elapse"]
    /\ UNCHANGED <<state, hstate, localStorage, logStore, dbQueue, nextId, now, pushes,
                   acked, toast, download, settings, frame, noteStore>>

\* the oldest timer is due and runs its callback
timerFires ==
    /\ timers # <<>>
    /\ Head(timers).age >= WAIT
    /\ localStorage' = IF Head(timers).store = "planner"
                       THEN Persist(localStorage, Head(timers).snapshot)
                       ELSE PersistHabits(localStorage, Head(timers).snapshot)
    /\ timers' = Tail(timers)
    /\ last' = [op |-> "saved", store |-> Head(timers).store]
    /\ UNCHANGED <<state, hstate, logStore, dbQueue, nextId, now, pushes, acked, toast,
                   download, settings, frame, noteStore>>

(* ------------------------- persisted documents ------------------------ *)

emptyCompletionState == [completedTaskIds |-> <<>>, completionHistory |-> <<>>]

\* what an earlier session left behind: a course with a completed and an open task
SampleCourses ==
    <<[id |-> 101, title |-> Len("Analiz"),
       units |-> <<[id |-> 102, order |-> 0,
                    tasks |-> <<[id |-> 103, status |-> "done"],
                                [id |-> 104, status |-> "todo"]>>]>>,
       exams |-> <<[id |-> 105]>>]>>
SampleCompletionState == [completedTaskIds |-> <<103>>, completionHistory |-> (103 :> 0)]
SamplePersonalTasks == <<[id |-> 106, status |-> "todo"]>>
SampleLectureNotesMeta == <<[id |-> 107, courseId |-> 101]>>

StoredEmpty ==
    [courses |-> <<>>, completionState |-> emptyCompletionState, undoStack |-> <<>>,
     personalTasks |-> <<>>, lectureNotesMeta |-> <<>>, habits |-> <<>>]
StoredSample ==
    [courses |-> SampleCourses, completionState |-> SampleCompletionState,
     undoStack |-> <<[timestamp |-> 0, completedTaskIds |-> <<>>,
                      completionHistory |-> <<>>]>>,
     personalTasks |-> SamplePersonalTasks,
     lectureNotesMeta |-> SampleLectureNotesMeta, habits |-> <<>>]

\* backup documents offered to importData
ImportPayloads ==
    {[courses |-> <<>>, completionState |-> emptyCompletionState, personalTasks |-> <<>>],
     [courses |-> SampleCourses, completionState |-> SampleCompletionState,
      personalTasks |-> SamplePersonalTasks]}

(* ------------------------------ backups ------------------------------- *)

\* a title is modelled by its length, the one thing the schemas look at
TitleInputs == {Len("Ders"), MAX_TITLE_LENGTH, MAX_TITLE_LENGTH + 1}

\* JSON.stringify leaves out a property whose value is undefined
SettingsJson(st) ==
    IF st.lastBackupISO = {}
    THEN [theme |-> st.theme]
    ELSE [theme |-> st.theme, lastBackupISO |-> st.lastBackupISO]

\* the text of a document: well formed with the value it denotes, or not
JSON_stringify(backup) ==
    [wellFormed |-> TRUE, value |-> [backup EXCEPT !.settings = SettingsJson(@)]]

\* JSON.parse: <<value>>, or <<>> when it throws
JSON_parse(text) == IF text.wellFormed THEN <<text.value>> ELSE <<>>

TaskSchema(t) == t.status \in TaskStatus

UnitSchema(u) == \A i \in 1..Len(u.tasks) : TaskSchema(u.tasks[i])

CourseSchema(c) ==
    /\ c.title <= MAX_TITLE_LENGTH
    /\ \A i \in 1..Len(c.units) : UnitSchema(c.units[i])

CompletionStateSchema(cs) ==
    {"completedTaskIds", "completionHistory"} \subseteq DOMAIN cs

AppSettingsSchema(st) ==
    /\ "theme" \in DOMAIN st
    /\ st.theme \in {"light", "dark", "system"}

BackupDataSchema(d) ==
    /\ {"version", "exportedAt", "courses", "completionState", "personalTasks",
        "habits", "settings"} \subseteq DOMAIN d
    /\ \A i \in 1..Len(d.courses) : CourseSchema(d.courses[i])
    /\ CompletionStateSchema(d.completionState)
    /\ \A i \in 1..Len(d.personalTasks) : TaskSchema(d.personalTasks[i])
    /\ AppSettingsSchema(d.settings)

\* setSettings(prev => ({ ...prev, ...updates })); the stored copy is written
\* in the same step and is not kept apart from the state
updateSettings(prev, updates) ==
    [k \in DOMAIN prev \cup DOMAIN updates |->
        IF k \in DOMAIN updates THEN updates[k] ELSE prev[k]]

NotPages ==
    UNCHANGED <<localStorage, logStore, dbQueue, nextId, now, pushes, acked, timers, frame,
                noteStore>>

\* the export button of the settings dialog; reading the habit logs may fail
handleExport ==
    /\ Len(download) < MaxDownloads
    /\ \E read \in BOOLEAN :
          /\ IF read
             THEN /\ download' = Append(download, JSON_stringify(
                         [version |-> "1.0.0", exportedAt |-> now,
                          courses |-> state.courses,
                          completionState |-> state.completionState,
                          personalTasks |-> state.personalTasks,
                          habits |-> hstate.habits,
                          settings |-> settings,
                          lectureNotesMeta |-> state.lectureNotesMeta]))
                  /\ settings' = updateSettings(settings, [lastBackupISO |-> {now}])
                  /\ toast' = "success"
             ELSE /\ toast' = "error"
                  /\ UNCHANGED <<download, settings>>
          /\ last' = [op |-> "handleExport", done |-> read]
    /\ UNCHANGED <<state, hstate>>
    /\ NotPages

\* handleImport with importData ahead of the schema check
handleImport_importsFirst(file) ==
    LET data == JSON_parse(file)
        valid == data # <<>> /\ BackupDataSchema(data[1])
    IN  /\ state' = IF data = <<>> THEN state
                    ELSE plannerReducer(state,
                           [type |-> "IMPORT_DATA",
                            payload |-> [courses |-> data[1].courses,
                                         completionState |-> data[1].completionState,
                                         personalTasks |-> data[1].personalTasks]])
        /\ IF valid
           THEN /\ hstate' = habitsReducer(hstate,
                       [type |-> "IMPORT_HABITS",
                        payload |-> [habits |-> data[1].habits, logs |-> <<>>]])
                /\ settings' = updateSettings(settings, data[1].settings)
                /\ toast' = "success"
           ELSE /\ toast' = "error"
                /\ UNCHANGED <<hstate, settings>>
        /\ last' = [op |-> "handleImport", file |-> file, imported |-> valid]
        /\ UNCHANGED download
        /\ NotPages

\* the import button of the settings dialog, given the text of the chosen file
handleImport(file) ==
    LET data == JSON_parse(file)
        valid == data # <<>> /\ BackupDataSchema(data[1])
    IN  /\ IF valid
           THEN /\ state' = plannerReducer(state,
                       [type |-> "IMPORT_DATA",
                        payload |-> [courses |-> data[1].courses,
                                     completionState |-> data[1].completionState,
                                     personalTasks |-> data[1].personalTasks]])
                /\ hstate' = habitsReducer(hstate,
                       [type |-> "IMPORT_HABITS",
                        payload |-> [habits |-> data[1].habits, logs |-> <<>>]])
                /\ settings' = updateSettings(settings, data[1].settings)
                /\ toast' = "success"
           ELSE /\ toast' = "error"
                /\ UNCHANGED <<state, hstate, settings>>
        /\ last' = [op |-> "handleImport", file |-> file, imported |-> valid]
        /\ UNCHANGED download
        /\ NotPages

\* a file that is not JSON, and a document of another program: courses only
NotJson == [wellFormed |-> FALSE]
ForeignDocument ==
    [wellFormed |-> TRUE,
     value |-> [courses |-> <<>>, completionState |-> emptyCompletionState,
                personalTasks |-> <<>>]]

\* the files the user can choose: what was exported, or one of the two above
Uploads == SeqToSet(download) \cup {NotJson, ForeignDocument}

(* --------------------------- specification ---------------------------- *)

\* the statuses the task form and the status menu are asked for in the model
StatusInputs == {"done", "review"}

InitWith(stored) ==
    /\ state = initialState
    /\ hstate = [habits |-> <<>>, habitLogs |-> <<>>, isLoading |-> TRUE, error |-> "null"]
    /\ localStorage = stored
    /\ logStore = {}
    /\ dbQueue = <<>>
    /\ nextId = 1
    /\ now = 0
    /\ pushes = 0
    /\ acked = <<>>
    /\ last = [op |-> "init"]
    /\ Idle

\* a first run: nothing persisted yet
Init == InitWith(StoredEmpty)

\* courses, units, tasks and their completion
Next ==
    \/ StoresOnly /\ loadData
    \/ StoresOnly /\ addCourse(Len("Ders"))
    \/ StoresOnly /\ \E c \in CourseIds(state) : deleteCourse(c)
    \/ StoresOnly /\ \E c \in CourseIds(state) : addUnit(c)
    \/ StoresOnly /\ \E p \in UnitPairs(state) : deleteUnit(p[1], p[2])
    \/ StoresOnly /\ \E p \in UnitPairs(state), st \in StatusInputs \cup {"todo"} : addTask(p[1], p[2], st)
    \/ StoresOnly /\ \E p \in TaskTriples(state) : deleteTask(p[1], p[2], p[3])
    \/ StoresOnly /\ \E t \in AllTaskIds(state) : toggleTaskCompletion(t)
    \/ StoresOnly /\ \E p \in TaskTriples(state), st \in StatusInputs :
          updateTaskStatus(p[3], st, p[1], p[2])
    \/ StoresOnly /\ undo
    \/ StoresOnly /\ Tick

Spec == Init /\ [][Next]_vars

\* a returning user: completion, undo and import beside the other aggregates
InitAside == InitWith(StoredSample)

NextAside ==
    \/ StoresOnly /\ loadData
    \/ StoresOnly /\ \E t \in AllTaskIds(state) : toggleTaskCompletion(t)
    \/ StoresOnly /\ undo
    \/ StoresOnly /\ addPersonalTask("todo")
    \/ StoresOnly /\ \E t \in SeqToSet(state.personalTasks) : deletePersonalTask(t.id)
    \/ StoresOnly /\ \E c \in CourseIds(state) : addLectureNoteMeta(c)
    \/ StoresOnly /\ \E n \in SeqToSet(state.lectureNotesMeta) : deleteLectureNoteMeta(n.id)
    \/ StoresOnly /\ \E p \in ImportPayloads :
          importData(p.courses, p.completionState, p.personalTasks)

SpecAside == InitAside /\ [][NextAside]_vars

\* the undo stack near its limit: a returning user who has toggled one task over
\* and over
\* one press of the checkbox: the two dispatches of toggleTaskCompletion
Pressed(s, taskId) ==
    plannerReducer(plannerReducer(s, [type |-> "PUSH_UNDO_SNAPSHOT"]),
                   [type |-> "TOGGLE_TASK_COMPLETION", payload |-> taskId])

RECURSIVE Toggled(_, _, _)
Toggled(s, taskId, n) ==
    IF n = 0
    THEN s
    ELSE CHOOSE after \in {Pressed(before, taskId) : before \in {Toggled(s, taskId, n - 1)}} :
            TRUE

InitUndo ==
    /\ now = 0
    /\ \E n \in (MAX_UNDO_STACK - UndoSlack)..MAX_UNDO_STACK :
          state = Toggled(plannerReducer(initialState,
                              [type |-> "LOAD_DATA",
                               payload |-> [StoredSample EXCEPT !.undoStack = <<>>]]),
                          104, n)
    /\ hstate = [habits |-> <<>>, habitLogs |-> <<>>, isLoading |-> TRUE, error |-> "null"]
    /\ localStorage = StoredSample
    /\ logStore = {}
    /\ dbQueue = <<>>
    /\ nextId = 1
    /\ pushes = 0
    /\ acked = <<>>
    /\ last = [op |-> "init"]
    /\ Idle

NextUndo ==
    \/ StoresOnly /\ \E t \in AllTaskIds(state) : toggleTaskCompletion(t)
    \/ StoresOnly /\ \E p \in TaskTriples(state), st \in StatusInputs :
          updateTaskStatus(p[3], st, p[1], p[2])
    \/ StoresOnly /\ undo
    \/ StoresOnly /\ Tick

SpecUndo == InitUndo /\ [][NextUndo]_vars

\* every collection near its limit: the first course, its first unit, and the
\* habit list are the ones the views add to
SeedCourse(i, units, tasks, exams) ==
    [id |-> 1000 + i, title |-> Len("Ders"),
     units |-> [j \in 1..(IF i = 1 THEN units ELSE 1) |->
                  [id |-> 2000 + 100 * i + j, order |-> j - 1,
                   tasks |-> IF i = 1 /\ j = 1
                             THEN [k \in 1..tasks |-> [id |-> 5000 + k, status |-> "todo"]]
                             ELSE <<>>]],
     exams |-> IF i = 1 THEN [k \in 1..exams |-> [id |-> 6000 + k]] ELSE <<>>]

SeedHabit(k) ==
    [id |-> 7000 + k, type |-> "boolean",
     frequency |-> [type |-> "weeklyTarget", timesPerWeek |-> 7],
     manualOrder |-> k - 1, isArchived |-> FALSE, createdAt |-> 0]

\* what the habit form is asked for in the model
HabitInputs ==
    {[type |-> "boolean", frequency |-> [type |-> "weeklyTarget", timesPerWeek |-> 7]],
     [type |-> "boolean", frequency |-> [type |-> "everyXDays", interval |-> 2]]}

InitCap ==
    /\ \E room \in 0..CapSlack :
          /\ state = [initialState EXCEPT
                         !.courses = [i \in 1..(MAX_COURSES - room) |->
                                        SeedCourse(i, MAX_UNITS_PER_COURSE - room,
                                                   MAX_TASKS_PER_UNIT - room,
                                                   MAX_EXAMS_PER_COURSE - room)],
                         !.isLoading = FALSE]
          /\ hstate = [habits |-> [k \in 1..(MAX_HABITS - room) |-> SeedHabit(k)],
                       habitLogs |-> <<>>, isLoading |-> FALSE, error |-> "null"]
    /\ localStorage = StoredEmpty
    /\ logStore = {}
    /\ dbQueue = <<>>
    /\ nextId = 1
    /\ now = 0
    /\ pushes = 0
    /\ acked = <<>>
    /\ last = [op |-> "init"]
    /\ Idle

NextCap ==
    \/ StoresOnly /\ addCourse(Len("Ders"))
    \/ StoresOnly /\ addUnit(state.courses[1].id)
    \/ StoresOnly /\ addTask(state.courses[1].id, state.courses[1].units[1].id, "todo")
    \/ StoresOnly /\ addExam(state.courses[1].id)
    \/ StoresOnly /\ \E h \in HabitInputs : addHabit(h)

SpecCap == InitCap /\ [][NextCap]_vars

\* the habits of a returning user and their logs
StoredHabits ==
    <<[id |-> 201, type |-> "boolean",
       frequency |-> [type |-> "weeklyTarget", timesPerWeek |-> 7],
       manualOrder |-> 0, isArchived |-> FALSE, createdAt |-> 0],
      [id |-> 202, type |-> "boolean",
       frequency |-> [type |-> "everyXDays", interval |-> 2],
       manualOrder |-> 1, isArchived |-> FALSE, createdAt |-> 0]>>

StoredLogs ==
    {[habitId |-> 201, dateISO |-> 1, done |-> {TRUE}, value |-> {}, timestamp |-> 0]}

Dates == 1..MaxDates
\* an optional argument is the set of its values, empty when it is undefined
LogInputs ==
    {[done |-> {TRUE}, value |-> {}], [done |-> {}, value |-> {}],
     [done |-> {TRUE}, value |-> {3}]}

\* the state right after mount: getHabits() has been read and getAllHabitLogs()
\* is awaited
InitHabits ==
    /\ state = initialState
    /\ hstate = [habits |-> <<>>, habitLogs |-> <<>>, isLoading |-> TRUE, error |-> "null"]
    /\ localStorage = [StoredEmpty EXCEPT !.habits = StoredHabits]
    /\ logStore \in {{}, StoredLogs}
    /\ dbQueue = <<[kind |-> "getAllHabitLogs", habits |-> localStorage.habits]>>
    /\ nextId = 1
    /\ now = 0
    /\ pushes = 0
    /\ acked = <<>>
    /\ last = [op |-> "init"]
    /\ Idle

NextHabits ==
    \/ StoresOnly /\ \E h \in HabitIds(hstate), d \in Dates, in \in LogInputs :
          logHabit(h, d, in.done, in.value)
    \/ StoresOnly /\ requestSucceeds
    \/ StoresOnly /\ requestFails

SpecHabits == InitHabits /\ [][NextHabits]_vars

\* the habits of a returning user, logged and deleted
NextDelete ==
    \/ StoresOnly /\ \E h \in HabitIds(hstate), d \in Dates : logHabit(h, d, {TRUE}, {})
    \/ StoresOnly /\ \E h \in HabitIds(hstate) : deleteHabit(h)
    \/ StoresOnly /\ requestSucceeds
    \/ StoresOnly /\ requestFails

SpecDelete == InitHabits /\ [][NextDelete]_vars

\* the backups of the habits a user restores: SettingsPage passes the habits
\* of the file and no logs; a caller with logs passes those of the file
ImportedLogs ==
    {<<>>, <<[habitId |-> 201, dateISO |-> 1, done |-> {}, value |-> {}, timestamp |-> 0]>>}

\* the habits of a returning user, logged, deleted and restored, with a record
\* store that answers every request
NextImport ==
    \/ StoresOnly /\ \E h \in HabitIds(hstate), d \in Dates : logHabit(h, d, {TRUE}, {})
    \/ StoresOnly /\ \E h \in HabitIds(hstate) : deleteHabit(h)
    \/ StoresOnly /\ \E logs \in ImportedLogs : importHabits(StoredHabits, logs)
    \/ StoresOnly /\ requestSucceeds

SpecImport == InitHabits /\ [][NextImport]_vars

\* a returning user with a full course list and one id short of what generateId
\* hands out, edits and the saves they schedule
StoredBusy ==
    [StoredEmpty EXCEPT !.courses = [i \in 1..MAX_COURSES |-> SeedCourse(i, 1, 1, 0)],
                        !.habits = StoredHabits]

InitSave ==
    /\ state = initialState
    /\ hstate = [habits |-> <<>>, habitLogs |-> <<>>, isLoading |-> TRUE, error |-> "null"]
    /\ localStorage = StoredBusy
    /\ logStore = {}
    /\ dbQueue = <<[kind |-> "getAllHabitLogs", habits |-> localStorage.habits]>>
    /\ nextId = MaxIds
    /\ now = 0
    /\ pushes = 0
    /\ acked = <<>>
    /\ last = [op |-> "init"]
    /\ Idle

NextSave ==
    \/ loadData /\ PlannerSaves(TRUE)
    \/ addCourse(Len("Ders")) /\ PlannerSaves(~last'.blocked)
    \/ \E t \in AllTaskIds(state) : toggleTaskCompletion(t) /\ PlannerSaves(TRUE)
    \/ requestSucceeds /\ HabitsSaves
    \/ requestFails /\ HabitsSaves
    \/ \E h \in HabitInputs : addHabit(h) /\ HabitsSaves
    \/ Elapse
    \/ timerFires

SpecSave == InitSave /\ [][NextSave]_vars

\* the settings dialog: backups of a planner with courses of any title
NextBackup ==
    \/ StoresOnly /\ loadData
    \/ StoresOnly /\ \E title \in TitleInputs : addCourse(title)
    \/ StoresOnly /\ \E t \in AllTaskIds(state) : toggleTaskCompletion(t)
    \/ handleExport
    \/ \E file \in Uploads : handleImport(file)

SpecBackup == InitAside /\ [][NextBackup]_vars

(* --------------------------- key-value reads -------------------------- *)

STORAGE_KEYS ==
    {"courses", "completionState", "undoStack", "personalTasks", "habits", "settings",
     "lectureNotesMeta"}

\* a JavaScript value with its runtime type
Null == [type |-> "null"]
Array(items) == [type |-> "array", items |-> items]
Object(fields) == [type |-> "object", fields |-> fields]

\* texts: the empty string, and a well-formed text with the value it denotes
EmptyText == [wellFormed |-> FALSE, empty |-> TRUE]
Text(value) == [wellFormed |-> TRUE, value |-> value]

\* an item of localStorage is <<>> (getItem gives null) or <<text>>
safeJsonParse(json, fallback) ==
    IF json = <<>> \/ json[1] = EmptyText
    THEN fallback
    ELSE IF JSON_parse(json[1]) = <<>> THEN fallback ELSE JSON_parse(json[1])[1]

\* validateWithSchema without the check of result.success
validateWithSchema_trusting(data, success, fallback) == data

\* success is schema.safeParse(data).success
validateWithSchema(data, success, fallback) == IF success THEN data ELSE fallback

UndoSnapshotSchema(u) ==
    {"timestamp", "completedTaskIds", "completionHistory"} \subseteq DOMAIN u

FrequencyRuleSchema(f) ==
    \/ f.type = "weeklyTarget" /\ f.timesPerWeek \in 1..7
    \/ f.type = "specificDays" /\ SeqToSet(f.days) \subseteq 0..6
    \/ f.type = "everyXDays" /\ f.interval \in 1..365

HabitSchema(h) ==
    /\ h.type \in {"boolean", "numeric"}
    /\ FrequencyRuleSchema(h.frequency)

LectureNoteMetaSchema(m) == {"id", "courseId"} \subseteq DOMAIN m

\* z.array(schema) and z.object: the value has the type and its parts pass
ArrayOfCourses(v) ==
    v.type = "array" /\ \A i \in 1..Len(v.items) : CourseSchema(v.items[i])
ArrayOfTasks(v) ==
    v.type = "array" /\ \A i \in 1..Len(v.items) : TaskSchema(v.items[i])
ArrayOfUndoSnapshots(v) ==
    v.type = "array" /\ \A i \in 1..Len(v.items) : UndoSnapshotSchema(v.items[i])
ArrayOfHabits(v) ==
    v.type = "array" /\ \A i \in 1..Len(v.items) : HabitSchema(v.items[i])
ArrayOfLectureNotes(v) ==
    v.type = "array" /\ \A i \in 1..Len(v.items) : LectureNoteMetaSchema(v.items[i])
CompletionStateObject(v) == v.type = "object" /\ CompletionStateSchema(v.fields)
AppSettingsObject(v) == v.type = "object" /\ AppSettingsSchema(v.fields)

getCourses(raw) ==
    LET parsed == safeJsonParse(raw, Array(<<>>))
    IN  validateWithSchema(parsed, ArrayOfCourses(parsed), Array(<<>>))

getCompletionState(raw) ==
    LET parsed == safeJsonParse(raw, Object(emptyCompletionState))
    IN  validateWithSchema(parsed, CompletionStateObject(parsed),
                           Object(emptyCompletionState))

getUndoStack(raw) ==
    LET parsed == safeJsonParse(raw, Array(<<>>))
    IN  validateWithSchema(parsed, ArrayOfUndoSnapshots(parsed), Array(<<>>))

getPersonalTasks(raw) ==
    LET parsed == safeJsonParse(raw, Array(<<>>))
    IN  validateWithSchema(parsed, ArrayOfTasks(parsed), Array(<<>>))

getHabits(raw) ==
    LET parsed == safeJsonParse(raw, Array(<<>>))
    IN  validateWithSchema(parsed, ArrayOfHabits(parsed), Array(<<>>))

getSettings(raw) ==
    LET parsed == safeJsonParse(raw, Object(DEFAULT_APP_SETTINGS))
    IN  validateWithSchema(parsed, AppSettingsObject(parsed),
                           Object(DEFAULT_APP_SETTINGS))

getLectureNotesMeta(raw) ==
    LET parsed == safeJsonParse(raw, Array(<<>>))
    IN  validateWithSchema(parsed, ArrayOfLectureNotes(parsed), Array(<<>>))

\* the getter of a key
Get(key, raw) ==
    CASE key = "courses" -> getCourses(raw)
      [] key = "completionState" -> getCompletionState(raw)
      [] key = "undoStack" -> getUndoStack(raw)
      [] key = "personalTasks" -> getPersonalTasks(raw)
      [] key = "habits" -> getHabits(raw)
      [] key = "settings" -> getSettings(raw)
      [] key = "lectureNotesMeta" -> getLectureNotesMeta(raw)

\* an element that the schema of the key accepts, and one that it rejects
GoodElement(key) ==
    CASE key = "courses" -> SampleCourses[1]
      [] key = "undoStack" -> [timestamp |-> 0, completedTaskIds |-> <<>>,
                               completionHistory |-> <<>>]
      [] key = "personalTasks" -> SamplePersonalTasks[1]
      [] key = "habits" -> StoredHabits[1]
      [] key = "lectureNotesMeta" -> SampleLectureNotesMeta[1]
BadElement(key) ==
    CASE key = "courses" -> [SampleCourses[1] EXCEPT !.title = MAX_TITLE_LENGTH + 1]
      [] key = "undoStack" -> [timestamp |-> 0]
      [] key = "personalTasks" -> [SamplePersonalTasks[1] EXCEPT !.status = "later"]
      [] key = "habits" -> [StoredHabits[1] EXCEPT !.type = "counter"]
      [] key = "lectureNotesMeta" -> [id |-> 107]

\* the items a key can hold: absent, empty, not JSON, JSON of another type, a
\* value of the schema, and a value with one part the schema rejects
ItemInputs(key) ==
    {<<>>, <<EmptyText>>, <<NotJson>>, <<Text(Null)>>}
    \cup (CASE key = "completionState" ->
                {<<Text(Object(SampleCompletionState))>>,
                 <<Text(Object([completedTaskIds |-> <<103>>]))>>,
                 <<Text(Array(<<>>))>>}
            [] key = "settings" ->
                {<<Text(Object([theme |-> "dark"]))>>,
                 <<Text(Object([theme |-> "sepia"]))>>,
                 <<Text(Array(<<>>))>>}
            [] OTHER ->
                {<<Text(Array(<<GoodElement(key)>>))>>,
                 <<Text(Array(<<GoodElement(key), BadElement(key)>>))>>,
                 <<Text(Object(emptyCompletionState))>>})

\* a text is put under a key from outside the program
setItem(key, item) ==
    /\ Cardinality({k \in STORAGE_KEYS \ {key} : localStorage[k] # <<>>}) < MaxStoredKeys
    /\ localStorage' = [localStorage EXCEPT ![key] = item]
    /\ last' = [op |-> "setItem", key |-> key]
    /\ UNCHANGED <<state, hstate, logStore, dbQueue, nextId, now, pushes, acked>>

\* a getter is called
read(key) ==
    /\ last' = [op |-> "read", key |-> key, result |-> Get(key, localStorage[key])]
    /\ UNCHANGED <<state, hstate, localStorage, logStore, dbQueue, nextId, now, pushes,
                   acked>>

InitRead ==
    /\ state = initialState
    /\ hstate = [habits |-> <<>>, habitLogs |-> <<>>, isLoading |-> TRUE, error |-> "null"]
    /\ localStorage = [k \in STORAGE_KEYS |-> <<>>]
    /\ logStore = {}
    /\ dbQueue = <<>>
    /\ nextId = 1
    /\ now = 0
    /\ pushes = 0
    /\ acked = <<>>
    /\ last = [op |-> "init"]
    /\ Idle

NextRead ==
    \/ StoresOnly /\ \E key \in STORAGE_KEYS : \E item \in ItemInputs(key) : setItem(key, item)
    \/ StoresOnly /\ \E key \in STORAGE_KEYS : read(key)

SpecRead == InitRead /\ [][NextRead]_vars

(* --------------------------- habit utilities -------------------------- *)

\* 1000 * 60 * 60 * 24 ms: a day, on a clock that ticks once a minute
DAY_MIN == 60 * 24

\* new Date(dateISO).getTime() of a date string: midnight UTC of day dateISO
getTime(dateISO) == dateISO * DAY_MIN

\* date.getDay(): the weekday, in the zone of the browser, of midnight UTC of
\* day dateISO (day 0 is a Thursday); zone is the offset from UTC in minutes
getDay(dateISO, zone) == (4 + 7 + (getTime(dateISO) + zone) \div DAY_MIN) % 7

\* habit.createdAt and dateISO are minutes and days since day 0
isHabitDueOnDate(habit, dateISO, zone) ==
    CASE habit.frequency.type = "weeklyTarget" -> TRUE
      [] habit.frequency.type = "specificDays" ->
            getDay(dateISO, zone) \in SeqToSet(habit.frequency.days)
      [] habit.frequency.type = "everyXDays" ->
            LET diffDays == (getTime(dateISO) - habit.createdAt) \div DAY_MIN
            IN  diffDays >= 0 /\ diffDays % habit.frequency.interval = 0
      [] OTHER -> FALSE

\* times of day, in minutes after midnight UTC, at which addHabit reads the clock
TimesOfDay == {0, 1, DAY_MIN \div 2, DAY_MIN - 1}

\* offsets of the zone of the browser
ZoneInputs == {0 - 3 * 60, 0, 3 * 60}

FrequencyInputs ==
    {[type |-> "weeklyTarget", timesPerWeek |-> 3],
     [type |-> "specificDays", days |-> <<1, 4>>]}
    \cup {[type |-> "everyXDays", interval |-> n] : n \in 1..MaxInterval}

\* a view asks whether the habit is due on a day
isDue(dateISO, zone) ==
    /\ last' = [op |-> "isHabitDueOnDate", dateISO |-> dateISO, zone |-> zone,
                due |-> isHabitDueOnDate(hstate.habits[1], dateISO, zone)]
    /\ UNCHANGED <<state, hstate, localStorage, logStore, dbQueue, nextId, now, pushes,
                   acked>>

\* one habit, created on day 0
InitDue ==
    /\ state = [initialState EXCEPT !.isLoading = FALSE]
    /\ \E f \in FrequencyInputs, t \in TimesOfDay :
          hstate = [habits |-> <<[id |-> 201, type |-> "boolean", frequency |-> f,
                                  manualOrder |-> 0, isArchived |-> FALSE,
                                  createdAt |-> t]>>,
                    habitLogs |-> <<>>, isLoading |-> FALSE, error |-> "null"]
    /\ localStorage = StoredEmpty
    /\ logStore = {}
    /\ dbQueue = <<>>
    /\ nextId = 1
    /\ now = 0
    /\ pushes = 0
    /\ acked = <<>>
    /\ last = [op |-> "init"]
    /\ Idle

NextDue ==
    \/ StoresOnly /\ \E d \in -1..MaxDay, zone \in ZoneInputs : isDue(d, zone)

SpecDue == InitDue /\ [][NextDue]_vars

(* ---------------------------- habit streak ---------------------------- *)

\* a || b on an optional number: the default for undefined and for 0
OrDefault(opt, default) ==
    IF opt = {} \/ opt = {0} THEN default ELSE CHOOSE x \in opt : TRUE

\* log is <<>> (logMap.get gives undefined) or <<log>>
isHabitCompleted(habit, log) ==
    IF log = <<>>
    THEN FALSE
    ELSE CASE habit.type = "boolean" -> log[1].done = {TRUE}
           [] habit.type = "numeric" ->
                 OrDefault(log[1].value, 0) >= OrDefault(habit.target, 1)
           [] OTHER -> FALSE

\* the locals of calculateHabitStreak at its call
StreakFrame(endDate, zone) ==
    [fn |-> "calculateHabitStreak", endDate |-> endDate, zone |-> zone, i |-> 0,
     currentStreak |-> 0, bestStreak |-> 0, tempStreak |-> 0, consecutiveMisses |-> 0,
     result |-> <<>>]

\* the body of the loop with the current streak taken before the increment
StreakStep_currentLags(f, habit, due, completed) ==
    IF ~due
    THEN [f EXCEPT !.i = @ + 1]
    ELSE IF completed
    THEN [f EXCEPT !.tempStreak = @ + 1, !.consecutiveMisses = 0,
                   !.currentStreak = IF f.i < RECENT_DAYS THEN f.tempStreak ELSE @,
                   !.i = @ + 1]
    ELSE IF habit.frequency.type = "weeklyTarget" /\ ~(f.consecutiveMisses + 1 > MISS_TOLERANCE)
    THEN [f EXCEPT !.consecutiveMisses = @ + 1, !.i = @ + 1]
    ELSE [f EXCEPT !.consecutiveMisses = @ + 1,
                   !.bestStreak = Max2(@, f.tempStreak), !.tempStreak = 0, !.i = @ + 1]

\* the body of the loop with a miss that does not record the best streak
StreakStep_forgetsBest(f, habit, due, completed) ==
    IF ~due
    THEN [f EXCEPT !.i = @ + 1]
    ELSE IF completed
    THEN [f EXCEPT !.tempStreak = @ + 1, !.consecutiveMisses = 0,
                   !.currentStreak = IF f.i < RECENT_DAYS THEN f.tempStreak + 1 ELSE @,
                   !.i = @ + 1]
    ELSE IF habit.frequency.type = "weeklyTarget" /\ ~(f.consecutiveMisses + 1 > MISS_TOLERANCE)
    THEN [f EXCEPT !.consecutiveMisses = @ + 1, !.i = @ + 1]
    ELSE [f EXCEPT !.consecutiveMisses = @ + 1, !.tempStreak = 0, !.i = @ + 1]

\* the body of the loop with weeklyTarget habits treated like the others
StreakStep_strictWeekly(f, habit, due, completed) ==
    IF ~due
    THEN [f EXCEPT !.i = @ + 1]
    ELSE IF completed
    THEN [f EXCEPT !.tempStreak = @ + 1, !.consecutiveMisses = 0,
                   !.currentStreak = IF f.i < RECENT_DAYS THEN f.tempStreak + 1 ELSE @,
                   !.i = @ + 1]
    ELSE [f EXCEPT !.consecutiveMisses = @ + 1,
                   !.bestStreak = Max2(@, f.tempStreak), !.tempStreak = 0, !.i = @ + 1]

\* the body of the loop for one day, and i++
StreakStep(f, habit, due, completed) ==
    IF ~due
    THEN [f EXCEPT !.i = @ + 1]
    ELSE IF completed
    THEN [f EXCEPT !.tempStreak = @ + 1, !.consecutiveMisses = 0,
                   !.currentStreak = IF f.i < RECENT_DAYS THEN f.tempStreak + 1 ELSE @,
                   !.i = @ + 1]
    ELSE IF habit.frequency.type = "weeklyTarget" /\ ~(f.consecutiveMisses + 1 > MISS_TOLERANCE)
    THEN [f EXCEPT !.consecutiveMisses = @ + 1, !.i = @ + 1]
    ELSE [f EXCEPT !.consecutiveMisses = @ + 1,
                   !.bestStreak = Max2(@, f.tempStreak), !.tempStreak = 0, !.i = @ + 1]

\* what the walk has met so far: the completed due days before the first miss
\* (all of them, and those among the recent days), whether a miss was met, and
\* whether a due day was completed after it
Met(seen, i, due, completed) ==
    IF ~due THEN seen
    ELSE IF ~completed THEN [seen EXCEPT !.missed = TRUE]
    ELSE IF seen.missed THEN [seen EXCEPT !.doneAfterMiss = TRUE]
    ELSE [seen EXCEPT !.headRun = @ + 1,
                      !.headRecent = IF i < RECENT_DAYS THEN @ + 1 ELSE @]

NotStreak ==
    UNCHANGED <<state, hstate, localStorage, logStore, dbQueue, nextId, now, pushes, acked,
                timers, toast, download, settings, noteStore>>

\* a view calls calculateHabitStreak(habit, logs, endDate) for the habit
calculateHabitStreak(endDate, zone) ==
    /\ frame.fn = "none"
    /\ frame' = StreakFrame(endDate, zone)
    /\ last' = [op |-> "calculateHabitStreak",
                seen |-> [headRun |-> 0, headRecent |-> 0, missed |-> FALSE,
                          doneAfterMiss |-> FALSE]]
    /\ NotStreak

\* one pass of the loop; checkDate is i days before endDate (a zone without
\* daylight saving), and the log of that day is whatever the list holds for it
streakIteration ==
    /\ frame.fn = "calculateHabitStreak"
    /\ frame.result = <<>>
    /\ frame.i < STREAK_DAYS
    /\ LET habit == hstate.habits[1]
           dateISO == frame.endDate - frame.i
           due == isHabitDueOnDate(habit, dateISO, frame.zone)
       IN  \E log \in IF frame.i < MaxLogSpan
                      THEN {<<>>} \cup {<<l>> : l \in LogInputs}
                      ELSE {<<>>} :
              LET completed == isHabitCompleted(habit, log)
              IN  /\ frame' = StreakStep(frame, habit, due, completed)
                  /\ last' = [op |-> "streakIteration", isDue |-> due,
                              completed |-> completed,
                              seen |-> Met(last.seen, frame.i, due, completed)]
    /\ NotStreak

\* after the loop: the last running streak is a candidate too
streakReturns ==
    /\ frame.fn = "calculateHabitStreak"
    /\ frame.result = <<>>
    /\ frame.i = STREAK_DAYS
    /\ frame' = [frame EXCEPT
                    !.bestStreak = Max2(@, frame.tempStreak),
                    !.result = <<[current |-> frame.currentStreak,
                                  best |-> Max2(frame.bestStreak, frame.tempStreak)]>>]
    /\ last' = [op |-> "streakReturns", seen |-> last.seen]
    /\ NotStreak

\* the habits whose streak is asked for
StreakHabits ==
    {[id |-> 201, type |-> "boolean", frequency |-> f, manualOrder |-> 0,
      isArchived |-> FALSE, createdAt |-> 0, target |-> {}] :
        f \in {[type |-> "weeklyTarget", timesPerWeek |-> 3],
               [type |-> "specificDays", days |-> <<1, 3, 5>>],
               [type |-> "everyXDays", interval |-> 2]}}
    \cup {[id |-> 201, type |-> "boolean",
           frequency |-> [type |-> "everyXDays", interval |-> 2],
           manualOrder |-> 0, isArchived |-> FALSE, createdAt |-> DAY_MIN \div 2,
           target |-> {}]}
    \cup {[id |-> 201, type |-> "numeric",
           frequency |-> [type |-> "specificDays", days |-> <<1, 3, 5>>],
           manualOrder |-> 0, isArchived |-> FALSE, createdAt |-> 0, target |-> {2}]}

InitStreak ==
    /\ state = [initialState EXCEPT !.isLoading = FALSE]
    /\ \E habit \in StreakHabits :
          hstate = [habits |-> <<habit>>, habitLogs |-> <<>>, isLoading |-> FALSE,
                    error |-> "null"]
    /\ localStorage = StoredEmpty
    /\ logStore = {}
    /\ dbQueue = <<>>
    /\ nextId = 1
    /\ now = 0
    /\ pushes = 0
    /\ acked = <<>>
    /\ last = [op |-> "init"]
    /\ Idle

\* the last day of the walk: a few days, or more than a year, after day 0
EndDates == {MaxDay, STREAK_DAYS + MaxDay}

NextStreak ==
    \/ \E endDate \in EndDates :
          \E zone \in IF hstate.habits[1].frequency.type = "specificDays"
                      THEN ZoneInputs ELSE {0} :
             calculateHabitStreak(endDate, zone)
    \/ streakIteration
    \/ streakReturns

SpecStreak == InitStreak /\ [][NextStreak]_vars

(* ---------------------------- habit score ----------------------------- *)

\* getLastNDays(n) on day today: index 0 is the oldest day
getLastNDays(n, today) == [index \in 1..n |-> today - (n - index)]

\* Math.pow(1.05, index) in thousandths, rounded down at every factor
RECURSIVE Weight(_)
Weight(index) == IF index = 0 THEN 1000 ELSE (Weight(index - 1) * 105) \div 100

\* the sum of the weights of a set of indexes
RECURSIVE SumWeights(_)
SumWeights(indexes) ==
    IF indexes = {}
    THEN 0
    ELSE LET index == CHOOSE k \in indexes : TRUE
         IN  Weight(index) + SumWeights(indexes \ {index})

\* logMap.get(dateISO) for a list that holds a done log on each day of done
LogOn(done, dateISO) ==
    IF dateISO \in done THEN <<[done |-> {TRUE}, value |-> {}]>> ELSE <<>>

\* the indexes (from 0) of the days of the window that are due, and of those
\* that are completed as well
DueIndexes(habit, recentDays, zone) ==
    {index \in 0..(Len(recentDays) - 1) :
        isHabitDueOnDate(habit, recentDays[index + 1], zone)}
AchievedIndexes(habit, done, recentDays, zone) ==
    {index \in DueIndexes(habit, recentDays, zone) :
        isHabitCompleted(habit, LogOn(done, recentDays[index + 1]))}

\* Math.round(x) is the floor of x + 1/2
calculateHabitScore(habit, done, today, zone) ==
    LET recentDays == getLastNDays(SCORE_DAYS, today)
        totalWeight == SumWeights(DueIndexes(habit, recentDays, zone))
        achievedWeight == SumWeights(AchievedIndexes(habit, done, recentDays, zone))
    IN  IF totalWeight = 0 THEN 100
        ELSE (2 * 100 * achievedWeight + totalWeight) \div (2 * totalWeight)

\* a view asks for the score of the habit on day today
score(done, today, zone) ==
    /\ frame.fn = "none"
    /\ frame' = [fn |-> "calculateHabitScore", done |-> done, today |-> today,
                 zone |-> zone,
                 result |-> calculateHabitScore(hstate.habits[1], done, today, zone)]
    /\ last' = [op |-> "calculateHabitScore"]
    /\ NotStreak

\* the habit of the example, created on day 0 at some time of day, and the
\* habits of the streaks
ScoreHabits ==
    {[id |-> 201, type |-> "boolean", frequency |-> [type |-> "everyXDays", interval |-> 10],
      manualOrder |-> 0, isArchived |-> FALSE, createdAt |-> t, target |-> {}] :
        t \in TimesOfDay}
    \cup StreakHabits

InitScore ==
    /\ state = [initialState EXCEPT !.isLoading = FALSE]
    /\ \E habit \in ScoreHabits :
          hstate = [habits |-> <<habit>>, habitLogs |-> <<>>, isLoading |-> FALSE,
                    error |-> "null"]
    /\ localStorage = StoredEmpty
    /\ logStore = {}
    /\ dbQueue = <<>>
    /\ nextId = 1
    /\ now = 0
    /\ pushes = 0
    /\ acked = <<>>
    /\ last = [op |-> "init"]
    /\ Idle

\* the logs are on any of the most recent days, or on every day of the window
NextScore ==
    \/ \E today \in 0..MaxDay :
          \E done \in (SUBSET {today - k : k \in 0..(MaxScoreLogs - 1)})
                       \cup {{today - k : k \in 0..(SCORE_DAYS - 1)}} :
             \E zone \in IF hstate.habits[1].frequency.type = "specificDays"
                         THEN ZoneInputs ELSE {0} :
                score(done, today, zone)

SpecScore == InitScore /\ [][NextScore]_vars

(* ------------------------------- pages -------------------------------- *)

\* what a form holds for a title or a text: nothing, or a few characters
FormInputs == {0, Len("Ders")}

\* a handler that raises a toast leaves the timers, downloads and settings alone
ToastOnly == UNCHANGED <<timers, download, settings, frame, noteStore>>

\* a form sent empty: the page raises an error toast and calls nothing
formRejected ==
    /\ toast' = "error"
    /\ last' = [op |-> "formRejected"]
    /\ UNCHANGED <<state, hstate, localStorage, logStore, dbQueue, nextId, now, pushes,
                   acked>>
    /\ ToastOnly

\* CoursesPage, no course being edited
CoursesPage_handleSubmit(title) ==
    IF title = 0
    THEN formRejected
    ELSE addCourse(title) /\ toast' = "success" /\ ToastOnly

\* the course page of ProductivityPage
handleAddUnit(courseId, title) ==
    IF title = 0
    THEN formRejected
    ELSE addUnit(courseId) /\ toast' = "success" /\ ToastOnly

handleAddTask(courseId, unitId, text, status) ==
    IF text = 0
    THEN formRejected
    ELSE addTask(courseId, unitId, status) /\ toast' = "success" /\ ToastOnly

\* no exam being edited
handleAddExam(courseId, title) ==
    IF title = 0
    THEN formRejected
    ELSE addExam(courseId) /\ toast' = "success" /\ ToastOnly

\* the habits page, no habit being edited
HabitsPage_handleSubmit(title, habitData) ==
    IF title = 0
    THEN formRejected
    ELSE addHabit(habitData) /\ toast' = "success" /\ ToastOnly

HabitsPage_handleDelete(id) ==
    deleteHabit(id) /\ toast' = "success" /\ ToastOnly

\* the pages over collections near their limits; the habit deleted is the one
\* the list shows first
NextPages ==
    \/ \E title \in FormInputs : CoursesPage_handleSubmit(title)
    \/ \E title \in FormInputs : handleAddUnit(state.courses[1].id, title)
    \/ \E text \in FormInputs :
          handleAddTask(state.courses[1].id, state.courses[1].units[1].id, text, "todo")
    \/ \E title \in FormInputs : handleAddExam(state.courses[1].id, title)
    \/ \E title \in FormInputs :
          HabitsPage_handleSubmit(title, [type |-> "boolean", frequency |->
                                             [type |-> "weeklyTarget", timesPerWeek |-> 7]])
    \/ \E id \in HabitIds(hstate) \cap {SeedHabit(1).id} : HabitsPage_handleDelete(id)
    \/ StoresOnly /\ requestSucceeds
    \/ StoresOnly /\ requestFails

SpecPages == InitCap /\ [][NextPages]_vars

(* -------------------------- course progress --------------------------- *)

\* course.units.forEach(unit => unit.tasks.forEach(...)): the tasks in the
\* order the two loops visit them
RECURSIVE Visited(_)
Visited(units) ==
    IF units = <<>> THEN <<>> ELSE Head(units).tasks \o Visited(Tail(units))

\* the loop body: total++, and completed++ when the id is included
RECURSIVE Tally(_, _, _)
Tally(tasks, completedTaskIds, acc) ==
    IF tasks = <<>> THEN acc
    ELSE Tally(Tail(tasks), completedTaskIds,
               [total |-> acc.total + 1,
                completed |-> acc.completed +
                    IF Includes(completedTaskIds, Head(tasks).id) THEN 1 ELSE 0])

\* Math.round(x) for x = num / den >= 0
Round(num, den) == (2 * num + den) \div (2 * den)

calculateCourseProgress_countsIds(course, completedTaskIds) ==
    LET t == Tally(Visited(course.units), completedTaskIds, [total |-> 0, completed |-> 0])
        completed == Len(completedTaskIds)
    IN [total |-> t.total, completed |-> completed,
        percentage |-> IF t.total = 0 THEN 0 ELSE Round(completed * 100, t.total)]
calculateCourseProgress(course, completedTaskIds) ==
    LET t == Tally(Visited(course.units), completedTaskIds, [total |-> 0, completed |-> 0])
    IN [total |-> t.total, completed |-> t.completed,
        percentage |-> IF t.total = 0 THEN 0 ELSE Round(t.completed * 100, t.total)]

\* ProductivityPage renders a course card:
\* calculateCourseProgress(course, state.completionState.completedTaskIds)
progress(courseId) ==
    /\ Ready
    /\ frame.fn = "none"
    /\ LET course == FindCourse(state, courseId)[1]
           completedTaskIds == state.completionState.completedTaskIds
       IN frame' = [fn |-> "calculateCourseProgress", course |-> course,
                    completedTaskIds |-> completedTaskIds,
                    result |-> calculateCourseProgress(course, completedTaskIds)]
    /\ last' = [op |-> "calculateCourseProgress", courseId |-> courseId]
    /\ NotStreak

\* the card is drawn and the locals are gone
progressReturns ==
    /\ frame.fn = "calculateCourseProgress"
    /\ frame' = [fn |-> "none"]
    /\ UNCHANGED last
    /\ NotStreak

\* no handler runs while a render is computing
Rendered == frame.fn = "none" /\ StoresOnly

\* a returning user adds courses and tasks, completes tasks, and looks at
\* the course cards
NextProgress ==
    \/ Rendered /\ loadData
    \/ Rendered /\ addCourse(Len("Ders"))
    \/ Rendered /\ \E p \in UnitPairs(state) : addTask(p[1], p[2], "todo")
    \/ Rendered /\ \E p \in TaskTriples(state) : deleteTask(p[1], p[2], p[3])
    \/ Rendered /\ \E t \in AllTaskIds(state) : toggleTaskCompletion(t)
    \/ \E c \in CourseIds(state) : progress(c)
    \/ progressReturns

SpecProgress == InitAside /\ [][NextProgress]_vars

(* ------------------------- completion records ------------------------- *)

\* backups the schema accepts: CompletionStateSchema checks the two fields'
\* types, not that they name the same tasks
BackupInputs ==
    ImportPayloads \cup
    {[courses |-> SampleCourses,
      completionState |-> [completedTaskIds |-> <<103>>, completionHistory |-> <<>>],
      personalTasks |-> SamplePersonalTasks]}

\* a returning user completes, deletes, undoes, and restores a backup
NextCompletion ==
    \/ StoresOnly /\ loadData
    \/ StoresOnly /\ \E t \in AllTaskIds(state) : toggleTaskCompletion(t)
    \/ StoresOnly /\ \E p \in TaskTriples(state), st \in StatusInputs :
          updateTaskStatus(p[3], st, p[1], p[2])
    \/ StoresOnly /\ \E p \in TaskTriples(state) : deleteTask(p[1], p[2], p[3])
    \/ StoresOnly /\ undo
    \/ StoresOnly /\ \E p \in BackupInputs :
          importData(p.courses, p.completionState, p.personalTasks)

SpecCompletion == InitAside /\ [][NextCompletion]_vars

(* --------------------------- lecture notes ---------------------------- *)

\* store.put(note) and store.delete(id) of the record store 'lectureNotes'
NotePut(store, note) == {n \in store : n.id # note.id} \cup {note}
NoteDelete(store, id) == {n \in store : n.id # id}

NoteKinds == {"saveLectureNote", "deleteLectureNote"}

\* the sizes of the files a user picks, in bytes
FileSizes == {1024, MAX_PDF_SIZE_MB * 1024 * 1024, MAX_PDF_SIZE_MB * 1024 * 1024 + 1}

NotNotes ==
    UNCHANGED <<hstate, localStorage, logStore, now, pushes, acked, timers, download,
                settings, frame>>

\* handleFileUpload of a course's page up to its await of saveLectureNote
handleFileUpload(courseId, size) ==
    /\ Ready
    /\ IF size > MAX_PDF_SIZE_MB * 1024 * 1024
       THEN /\ toast' = "error"
            /\ last' = [op |-> "handleFileUpload", sent |-> FALSE]
            /\ UNCHANGED <<dbQueue, nextId>>
       ELSE /\ CanGenerate(1)
            /\ InFlight(NoteKinds) < MaxPending
            /\ dbQueue' = Append(dbQueue,
                   [kind |-> "saveLectureNote",
                    note |-> [id |-> nextId, courseId |-> courseId]])
            /\ nextId' = nextId + 1
            /\ last' = [op |-> "handleFileUpload", sent |-> TRUE]
            /\ UNCHANGED toast
    /\ UNCHANGED <<state, noteStore>>
    /\ NotNotes

\* handleDeleteNote up to its await of deleteLectureNote
handleDeleteNote(noteId) ==
    /\ Ready
    /\ InFlight(NoteKinds) < MaxPending
    /\ dbQueue' = Append(dbQueue, [kind |-> "deleteLectureNote", id |-> noteId])
    /\ last' = [op |-> "handleDeleteNote"]
    /\ UNCHANGED <<state, noteStore, nextId, toast>>
    /\ NotNotes

\* the oldest request of the two handlers succeeds, and the handler that
\* awaited it goes on
noteRequestSucceeds ==
    /\ dbQueue # <<>>
    /\ Head(dbQueue).kind \in NoteKinds
    /\ LET req == Head(dbQueue)
       IN IF req.kind = "saveLectureNote"
          THEN /\ noteStore' = NotePut(noteStore, req.note)
               /\ state' = plannerReducer(state,
                      [type |-> "ADD_LECTURE_NOTE_META", payload |-> req.note])
               /\ last' = [op |-> "noteSaved", id |-> req.note.id]
          ELSE /\ noteStore' = NoteDelete(noteStore, req.id)
               /\ state' = plannerReducer(state,
                      [type |-> "DELETE_LECTURE_NOTE_META", payload |-> req.id])
               /\ last' = [op |-> "noteDeleted", id |-> req.id]
    /\ dbQueue' = Tail(dbQueue)
    /\ toast' = "success"
    /\ UNCHANGED nextId
    /\ NotNotes

\* the oldest request of the two handlers fails: the handler catches the
\* rejection and raises an error toast
noteRequestFails ==
    /\ dbQueue # <<>>
    /\ Head(dbQueue).kind \in NoteKinds
    /\ dbQueue' = Tail(dbQueue)
    /\ toast' = "error"
    /\ last' = [op |-> "noteRequestFailed", req |-> Head(dbQueue)]
    /\ UNCHANGED <<state, noteStore, nextId>>
    /\ NotNotes

\* the notes of a returning user's courses, uploaded and deleted, and the
\* courses deleted
NextNotes ==
    \/ StoresOnly /\ loadData
    \/ StoresOnly /\ addCourse(Len("Ders"))
    \/ StoresOnly /\ \E c \in CourseIds(state) : deleteCourse(c)
    \/ \E c \in CourseIds(state), size \in FileSizes : handleFileUpload(c, size)
    \/ \E n \in SeqToSet(state.lectureNotesMeta) : handleDeleteNote(n.id)
    \/ noteRequestSucceeds
    \/ noteRequestFails

SpecNotes == InitAside /\ [][NextNotes]_vars

(* ------------------------------ claims -------------------------------- *)

\* a task is in completedTaskIds exactly when its status is 'done'
CascadeInvariant(s) ==
    \A t \in AllTasks(s) :
        Includes(s.completionState.completedTaskIds, t.id) <=> (t.status = "done")

\* C1: right after toggleTaskCompletion or updateTaskStatus every task of every
\* unit of every course is in completedTaskIds exactly when its status is 'done'
C1_CascadeAfterToggle ==
    last.op \in {"toggleTaskCompletion", "updateTaskStatus"} => CascadeInvariant(state)

\* C2: every id in completedTaskIds is the id of a task of some unit of some course
C2_CompletedIdsExist ==
    \A i \in 1..Len(state.completionState.completedTaskIds) :
        state.completionState.completedTaskIds[i] \in AllTaskIds(state)

\* C3: after deleteTask(courseId, unitId, taskId) the task id is neither in
\* completedTaskIds nor a key of completionHistory, and no unit holds the task
C3_DeleteTaskPurges ==
    last.op = "deleteTask" =>
        /\ ~Includes(state.completionState.completedTaskIds, last.taskId)
        /\ last.taskId \notin DOMAIN state.completionState.completionHistory
        /\ last.taskId \notin AllTaskIds(state)

\* a completed task has just been deleted
C3_Witness == last.op = "deleteTask" /\ last.wasCompleted

\* C4: the undo stack never holds more than MAX_UNDO_STACK snapshots, and a push
\* onto a stack of MAX_UNDO_STACK drops the oldest snapshot and keeps the others,
\* in order, followed by the snapshot of the completion state before the change
C4_UndoStackBounded ==
    /\ [](Len(state.undoStack) <= MAX_UNDO_STACK)
    /\ [][(/\ last'.op \in {"toggleTaskCompletion", "updateTaskStatus"}
           /\ Len(state.undoStack) = MAX_UNDO_STACK)
          => state'.undoStack =
                Append(SubSeq(state.undoStack, 2, MAX_UNDO_STACK),
                       [timestamp |-> now,
                        completedTaskIds |-> state.completionState.completedTaskIds,
                        completionHistory |-> state.completionState.completionHistory])]_vars

\* a snapshot taken at a later time has been pushed onto a full stack, whose
\* oldest snapshot differed from the one after it
C4_Witness ==
    /\ last.op \in {"toggleTaskCompletion", "updateTaskStatus"} /\ last.full
    /\ Len(state.undoStack) = MAX_UNDO_STACK
    /\ state.undoStack[MAX_UNDO_STACK].timestamp > state.undoStack[1].timestamp
    /\ state.undoStack[1].completedTaskIds # state.undoStack[2].completedTaskIds

\* C5: an undo() issued directly after toggleTaskCompletion or updateTaskStatus
\* gives back the completion state and the undo stack of before that call, when
\* the stack held fewer than MAX_UNDO_STACK snapshots
C5_UndoRestores ==
    [][(/\ last'.op \in {"toggleTaskCompletion", "updateTaskStatus"}
        /\ Len(state.undoStack) < MAX_UNDO_STACK)
       => /\ Len(state'.undoStack) = Len(state.undoStack) + 1
          /\ plannerReducer(state', [type |-> "UNDO"]).completionState
                = state.completionState
          /\ plannerReducer(state', [type |-> "UNDO"]).undoStack = state.undoStack]_vars

\* undo() has popped the snapshot that a toggle or a status update had pushed as
\* the last one the stack has room for
C5_Witness ==
    /\ last.op = "undo" /\ last.afterToggle /\ last.popped
    /\ Len(state.undoStack) = MAX_UNDO_STACK - 1
    /\ state.completionState.completionHistory # <<>>

\* C6: undo() pops the most recent snapshot into completionState and changes
\* nothing else; with an empty stack it changes nothing at all
C6_UndoFrame ==
    [][last'.op = "undo"
       => /\ state'.courses = state.courses
          /\ state'.personalTasks = state.personalTasks
          /\ state'.lectureNotesMeta = state.lectureNotesMeta
          /\ state'.isLoading = state.isLoading
          /\ state'.error = state.error
          /\ IF Len(state.undoStack) = 0
             THEN state' = state
             ELSE LET top == state.undoStack[Len(state.undoStack)]
                  IN /\ state'.completionState =
                            [completedTaskIds |-> top.completedTaskIds,
                             completionHistory |-> top.completionHistory]
                     /\ state'.undoStack =
                            SubSeq(state.undoStack, 1, Len(state.undoStack) - 1)]_vars

\* undo() has popped a snapshot and left the status of a task behind: the task is
\* 'done' and no longer completed
C6_Witness ==
    /\ last.op = "undo" /\ last.popped
    /\ state.personalTasks # <<>> /\ state.lectureNotesMeta # <<>>
    /\ \E t \in AllTasks(state) :
          t.status = "done" /\ ~Includes(state.completionState.completedTaskIds, t.id)

\* C7: addCourse with MAX_COURSES courses leaves the course list as it is and sets
\* the error message; the course list never grows beyond MAX_COURSES
C7_AddCourseCapacity ==
    /\ [](Len(state.courses) <= MAX_COURSES)
    /\ [][(last'.op = "addCourse" /\ Len(state.courses) = MAX_COURSES)
          => /\ state'.courses = state.courses
             /\ state'.error # "null"]_vars

\* addCourse has been refused with the course list full
C7_Witness ==
    /\ last.op = "addCourse" /\ last.blocked
    /\ Len(state.courses) = MAX_COURSES
    /\ state.error # "null"

\* the lists addUnit, addTask, addExam and addHabit add to
UnitsOfCourse(s, courseId) == FindCourse(s, courseId)[1].units
ExamsOfCourse(s, courseId) == FindCourse(s, courseId)[1].exams
TasksOfUnit(s, courseId, unitId) == FindUnit(FindCourse(s, courseId)[1], unitId)[1].tasks

\* C8: addUnit, addTask, addExam and addHabit at the limit of the list they add to
\* leave the list as it is and set the error message; no unit list grows beyond
\* MAX_UNITS_PER_COURSE, no task list beyond MAX_TASKS_PER_UNIT, no exam list
\* beyond MAX_EXAMS_PER_COURSE and the habit list not beyond MAX_HABITS
C8_ChildCapacity ==
    /\ [](/\ \A i \in 1..Len(state.courses) :
               /\ Len(state.courses[i].units) <= MAX_UNITS_PER_COURSE
               /\ Len(state.courses[i].exams) <= MAX_EXAMS_PER_COURSE
               /\ \A j \in 1..Len(state.courses[i].units) :
                     Len(state.courses[i].units[j].tasks) <= MAX_TASKS_PER_UNIT
          /\ Len(hstate.habits) <= MAX_HABITS)
    /\ [][/\ (/\ last'.op = "addUnit"
              /\ Len(UnitsOfCourse(state, last'.courseId)) = MAX_UNITS_PER_COURSE)
             => /\ state'.courses = state.courses
                /\ state'.error # "null"
          /\ (/\ last'.op = "addTask"
              /\ Len(TasksOfUnit(state, last'.courseId, last'.unitId)) = MAX_TASKS_PER_UNIT)
             => /\ state'.courses = state.courses
                /\ state'.error # "null"
          /\ (/\ last'.op = "addExam"
              /\ Len(ExamsOfCourse(state, last'.courseId)) = MAX_EXAMS_PER_COURSE)
             => /\ state'.courses = state.courses
                /\ state'.error # "null"
          /\ (last'.op = "addHabit" /\ Len(hstate.habits) = MAX_HABITS)
             => /\ hstate'.habits = hstate.habits
                /\ hstate'.error # "null"]_vars

\* addTask has been refused on a full unit, after addHabit was refused on a full
\* habit list, with the unit list and the exam list of the course full too
C8_Witness ==
    /\ last.op = "addTask" /\ last.blocked
    /\ Len(TasksOfUnit(state, last.courseId, last.unitId)) = MAX_TASKS_PER_UNIT
    /\ Len(UnitsOfCourse(state, last.courseId)) = MAX_UNITS_PER_COURSE
    /\ Len(ExamsOfCourse(state, last.courseId)) = MAX_EXAMS_PER_COURSE
    /\ state.error # "null"
    /\ Len(hstate.habits) = MAX_HABITS /\ hstate.error # "null"

\* C9: importData replaces courses, completionState and personalTasks by its
\* arguments, empties the undo stack, so that undo() changes nothing, and leaves
\* lectureNotesMeta, isLoading and error as they were
C9_ImportDataFrame ==
    [][last'.op = "importData"
       => /\ state'.courses = last'.payload.courses
          /\ state'.completionState = last'.payload.completionState
          /\ state'.personalTasks = last'.payload.personalTasks
          /\ state'.undoStack = <<>>
          /\ plannerReducer(state', [type |-> "UNDO"]) = state'
          /\ state'.lectureNotesMeta = state.lectureNotesMeta
          /\ state'.isLoading = state.isLoading
          /\ state'.error = state.error]_vars

\* importData has replaced a state that held an undo snapshot and a lecture note
C9_Witness ==
    /\ last.op = "importData" /\ last.hadSnapshot
    /\ state.lectureNotesMeta # <<>>
    /\ state.courses = <<>>

\* the logs of one habit and one day, in the record store and in memory
StoredLogsOf(habitId, dateISO) ==
    {l \in logStore : l.habitId = habitId /\ l.dateISO = dateISO}
MemoryLogsOf(habitId, dateISO) ==
    {i \in 1..Len(GetLogs(hstate, habitId)) : GetLogs(hstate, habitId)[i].dateISO = dateISO}

\* C10: the record store and the log list in memory hold at most one log for a
\* habit and a day, and once a logHabit call for them has completed they hold
\* exactly one, carrying the done and the value of the last call that completed
C10_LogHabitIdempotent ==
    \A habitId \in {l.habitId : l \in logStore} \cup DOMAIN hstate.habitLogs
                   \cup {k[1] : k \in DOMAIN acked}, dateISO \in Dates :
        /\ Cardinality(StoredLogsOf(habitId, dateISO)) <= 1
        /\ Cardinality(MemoryLogsOf(habitId, dateISO)) <= 1
        /\ <<habitId, dateISO>> \in DOMAIN acked =>
              /\ \E l \in StoredLogsOf(habitId, dateISO) :
                    l.done = acked[<<habitId, dateISO>>].done
                    /\ l.value = acked[<<habitId, dateISO>>].value
              /\ \E i \in MemoryLogsOf(habitId, dateISO) :
                    LET l == GetLogs(hstate, habitId)[i]
                    IN l.done = acked[<<habitId, dateISO>>].done
                       /\ l.value = acked[<<habitId, dateISO>>].value

\* logHabit(h, d, true) has completed for a habit and a day that already had a
\* log with done = true in memory
C10_Witness ==
    /\ last.op = "habitLogged"
    /\ last.done = {TRUE}
    /\ {TRUE} \in last.replaced

\* C11: logHabit changes the log map in memory only once the put has succeeded,
\* so that every log in memory is in the record store; when the put fails the
\* habits and the logs in memory are as before and the error message is set
C11_LogStoredFirst ==
    /\ [](\A h \in DOMAIN hstate.habitLogs :
             \A i \in 1..Len(hstate.habitLogs[h]) : hstate.habitLogs[h][i] \in logStore)
    /\ [][/\ last'.op = "logHabit" => hstate' = hstate
          /\ last'.op = "habitLogged" =>
                /\ Head(dbQueue).log \in logStore'
                /\ Head(dbQueue).log \in SeqToSet(GetLogs(hstate', Head(dbQueue).log.habitId))
          /\ (last'.op = "requestFailed" /\ last'.req.kind = "saveHabitLog") =>
                /\ hstate'.habits = hstate.habits
                /\ hstate'.habitLogs = hstate.habitLogs
                /\ hstate'.error # "null"
                /\ logStore' = logStore]_vars

\* a put has failed for a habit and a day that hold a log of an earlier call, and
\* the log of the failed call is nowhere
C11_Witness ==
    /\ last.op = "requestFailed" /\ last.req.kind = "saveHabitLog"
    /\ hstate.error # "null"
    /\ last.req.log \notin logStore
    /\ \E l \in SeqToSet(GetLogs(hstate, last.req.log.habitId)) :
          SameKey(l, last.req.log) /\ l.done # last.req.log.done

\* C12: deleteHabit removes the habit from the state only after the logs it found
\* for the habit are deleted from the record store; when the cascade fails, the
\* habits and the logs in memory and the store are as before and the error
\* message is set
C12_DeleteLogsFirst ==
    [][/\ last'.op \in {"deleteHabit", "habitLogsRead"} => hstate' = hstate
       /\ last'.op = "habitDeleted" =>
             /\ \A l \in logStore' : ~\E m \in last'.logs : SameKey(l, m)
             /\ last'.habitId \notin HabitIds(hstate')
             /\ last'.habitId \notin DOMAIN hstate'.habitLogs
       /\ (/\ last'.op = "requestFailed"
           /\ last'.req.kind \in {"getHabitLogsByHabitId", "deleteHabitLogs"}) =>
             /\ hstate'.habits = hstate.habits
             /\ hstate'.habitLogs = hstate.habitLogs
             /\ hstate'.error # "null"
             /\ logStore' = logStore]_vars

\* the deletes of a habit's logs have failed: the habit and its logs are still
\* in the state and in the record store
C12_Witness ==
    /\ last.op = "requestFailed" /\ last.req.kind = "deleteHabitLogs"
    /\ hstate.error # "null"
    /\ last.req.habitId \in HabitIds(hstate)
    /\ GetLogs(hstate, last.req.habitId) # <<>>
    /\ LogsOfHabit(logStore, last.req.habitId) # {}

\* C13: once a habit has been deleted and no request is in flight, neither the
\* record store nor the log map in memory holds a log of the habit
C13_DeleteCascades ==
    \A i \in 1..Len(StoredHabits) :
        (/\ ~hstate.isLoading
         /\ StoredHabits[i].id \notin HabitIds(hstate)
         /\ dbQueue = <<>>)
        => /\ LogsOfHabit(logStore, StoredHabits[i].id) = {}
           /\ GetLogs(hstate, StoredHabits[i].id) = <<>>

\* the aggregates as persisted
Persisted(storage) ==
    [courses |-> storage.courses, completionState |-> storage.completionState,
     undoStack |-> storage.undoStack, personalTasks |-> storage.personalTasks,
     lectureNotesMeta |-> storage.lectureNotesMeta]

\* a timer of the provider's store is pending
Pending(store) == \E i \in 1..Len(timers) : timers[i].store = store

\* C17: a write of the planner's aggregates is the only one of its burst of
\* changes: no other save of the planner is pending when it happens, and it
\* writes the state of the last change
C17_DebounceCoalesces ==
    [][(last'.op = "saved" /\ last'.store = "planner")
       => /\ \A i \in 1..Len(timers') : timers'[i].store # "planner"
          /\ Head(timers).snapshot = Aggregates(state)]_vars

\* C18: once loading has finished and every save scheduled by the changes so
\* far has run, which is the case one wait after the last dispatch, the persisted
\* aggregates and habits equal the ones in memory; only a save writes them
C18_PersistedCatchesUp ==
    /\ []((~state.isLoading /\ ~Pending("planner"))
             => Persisted(localStorage) = Aggregates(state))
    /\ []((~hstate.isLoading /\ ~Pending("habits")) => localStorage.habits = hstate.habits)
    /\ [][last'.op # "saved" => localStorage' = localStorage]_vars

\* the last pending save has run after a toggle and a new habit: both are
\* persisted
C18_Witness ==
    /\ last.op = "saved" /\ timers = <<>>
    /\ state.undoStack # <<>> /\ localStorage.undoStack = state.undoStack
    /\ state.error # "null"
    /\ Len(hstate.habits) > Len(StoredHabits) /\ localStorage.habits = hstate.habits

\* C14: an import whose file is not JSON, or whose document BackupDataSchema
\* rejects, calls none of importData, importHabits and updateSettings: planner
\* state, habits state and settings stay as they are, and an error toast is raised
C14_ImportAllOrNothing ==
    [][(/\ last'.op = "handleImport"
        /\ \/ JSON_parse(last'.file) = <<>>
           \/ ~BackupDataSchema(JSON_parse(last'.file)[1]))
       => /\ state' = state
          /\ hstate' = hstate
          /\ settings' = settings
          /\ toast' = "error"]_vars

\* a well-formed document that the schema rejects was refused while the planner
\* held courses and the settings recorded a backup
C14_Witness ==
    /\ last.op = "handleImport"
    /\ JSON_parse(last.file) # <<>>
    /\ ~last.imported
    /\ toast = "error"
    /\ state.courses # <<>>
    /\ settings.lastBackupISO # {}

\* C15: a document written by handleExport holds the courses, the completion
\* state and the personal tasks of the planner at that time, and importing it
\* succeeds and makes them the planner's again
C15_BackupRoundTrip ==
    /\ [][(last'.op = "handleExport" /\ last'.done)
          => LET backup == JSON_parse(download'[Len(download')])[1]
             IN  /\ backup.courses = state.courses
                 /\ backup.completionState = state.completionState
                 /\ backup.personalTasks = state.personalTasks]_vars
    /\ [][(last'.op = "handleImport" /\ last'.file \in SeqToSet(download))
          => LET backup == JSON_parse(last'.file)[1]
             IN  /\ toast' = "success"
                 /\ state'.courses = backup.courses
                 /\ state'.completionState = backup.completionState
                 /\ state'.personalTasks = backup.personalTasks]_vars

\* the documented default of a key
DefaultOf(key) ==
    CASE key = "completionState" -> Object(emptyCompletionState)
      [] key = "settings" -> Object(DEFAULT_APP_SETTINGS)
      [] OTHER -> Array(<<>>)

\* every part of a value passes the schema of its key
WhollyValid(key, v) ==
    CASE key = "courses" -> ArrayOfCourses(v)
      [] key = "completionState" -> CompletionStateObject(v)
      [] key = "undoStack" -> ArrayOfUndoSnapshots(v)
      [] key = "personalTasks" -> ArrayOfTasks(v)
      [] key = "habits" -> ArrayOfHabits(v)
      [] key = "settings" -> AppSettingsObject(v)
      [] key = "lectureNotesMeta" -> ArrayOfLectureNotes(v)

\* C16: whatever text a key holds, its getter returns a value every part of
\* which passes the schema, and that value is the default of the key or the value
\* the stored text denotes
C16_ReadsValidatedOrDefault ==
    last.op = "read"
    => /\ WhollyValid(last.key, last.result)
       /\ \/ last.result = DefaultOf(last.key)
          \/ /\ localStorage[last.key] # <<>>
             /\ localStorage[last.key][1].wellFormed
             /\ last.result = localStorage[last.key][1].value

\* a list with a valid and an invalid course was read as the empty list while
\* another key held a text that is not JSON
C16_Witness ==
    /\ last.op = "read" /\ last.key = "courses"
    /\ localStorage.courses = <<Text(Array(<<GoodElement("courses"), BadElement("courses")>>))>>
    /\ last.result = Array(<<>>)
    /\ localStorage.habits = <<NotJson>>

\* C20: an everyXDays habit with interval n created at any time of day 0 is due
\* on day d exactly when d >= 0 and d is a multiple of n
C20_DueEveryXDays ==
    (last.op = "isHabitDueOnDate" /\ hstate.habits[1].frequency.type = "everyXDays")
    => (last.due <=> /\ last.dateISO >= 0
                     /\ last.dateISO % hstate.habits[1].frequency.interval = 0)

\* C19: an add of a course, unit, task, exam or habit from a page shows a
\* success toast only when it was not blocked, and a failure or warning toast
\* when it was; the delete of a habit shows a success toast only when the habit
\* is gone, and a failure or warning toast when the cascade is rejected
C19_ToastsTellTheOutcome ==
    /\ [][(last'.op \in {"addCourse", "addUnit", "addTask", "addExam", "addHabit"})
          => /\ toast' = "success" => ~last'.blocked
             /\ last'.blocked => toast' \in {"error", "warning"}]_vars
    /\ [][(last'.op = "deleteHabit" /\ toast' = "success")
          => Len(hstate'.habits) < Len(hstate.habits)]_vars
    /\ [][last'.op = "requestFailed" => toast' \in {"error", "warning"}]_vars

C22_MissResets ==
    [][(last'.op = "streakIteration" /\ last'.isDue)
       => IF last'.completed
          THEN frame'.consecutiveMisses = 0
          ELSE IF hstate.habits[1].frequency.type = "weeklyTarget"
                  /\ frame.consecutiveMisses < MISS_TOLERANCE
          THEN /\ frame'.tempStreak = frame.tempStreak
               /\ frame'.bestStreak = frame.bestStreak
          ELSE /\ frame'.tempStreak = 0
               /\ frame'.bestStreak = Max2(frame.bestStreak, frame.tempStreak)]_vars

\* a weeklyTarget habit at its 8th miss in a row: the streak of two days it had
\* kept through seven misses is recorded and reset
C22_Witness ==
    /\ frame.fn = "calculateHabitStreak"
    /\ hstate.habits[1].frequency.type = "weeklyTarget"
    /\ last.op = "streakIteration" /\ last.isDue /\ ~last.completed
    /\ frame.consecutiveMisses = MISS_TOLERANCE + 1
    /\ frame.tempStreak = 0
    /\ frame.bestStreak = 2
    /\ frame.currentStreak = 2

\* C29: for a specificDays or everyXDays habit the current streak is the number
\* of completed due days, among the recent days, from the most recent due day
\* back to the first miss: 0 when the most recent due day is not completed
C29_CurrentEndsAtLatestDueDay ==
    (/\ frame.fn = "calculateHabitStreak" /\ frame.result # <<>>
     /\ hstate.habits[1].frequency.type # "weeklyTarget")
    => frame.result[1].current = last.seen.headRecent

\* C23: calculateHabitScore is 100 when no day of the window is due, 100 when
\* every due day is completed and 0 when no due day is completed; for the
\* everyXDays habit with interval 10 asked about on the day it was created, it
\* is 100 when that day is completed and 0 when it is not
C23_ScoreExtremes ==
    frame.fn = "calculateHabitScore"
    => LET habit == hstate.habits[1]
           recentDays == getLastNDays(SCORE_DAYS, frame.today)
           dueDays == {recentDays[k] : k \in {k \in 1..SCORE_DAYS :
                          isHabitDueOnDate(habit, recentDays[k], frame.zone)}}
           completed == IF habit.type = "boolean" THEN frame.done ELSE {}
       IN  /\ dueDays = {} => frame.result = 100
           /\ (dueDays # {} /\ dueDays \subseteq completed) => frame.result = 100
           /\ (dueDays # {} /\ dueDays \cap completed = {}) => frame.result = 0
           /\ (/\ habit.frequency = [type |-> "everyXDays", interval |-> 10]
               /\ habit.createdAt \div DAY_MIN = frame.today)
              => frame.result = IF frame.today \in completed THEN 100 ELSE 0

\* C24: calculateCourseProgress(course, completedTaskIds) returns total = the
\* number of tasks in all units of the course, completed = the number of those
\* tasks whose id is in completedTaskIds, and percentage = 100 * completed /
\* total rounded to the nearest integer (0 when total is 0); so 0 <= completed
\* <= total and 0 <= percentage <= 100; and for a course created, given one
\* task, with that task toggled complete, it is {1, 1, 100}
TaskPlaces(course) ==
    {<<u, t>> \in (1..Len(course.units)) \X (1..MAX_TASKS_PER_UNIT) :
        t <= Len(course.units[u].tasks)}
C24_CourseProgress ==
    frame.fn = "calculateCourseProgress" =>
        LET course == frame.course
            ids == SeqToSet(frame.completedTaskIds)
            r == frame.result
            done == {p \in TaskPlaces(course) : course.units[p[1]].tasks[p[2]].id \in ids}
        IN /\ r.total = Cardinality(TaskPlaces(course))
           /\ r.completed = Cardinality(done)
           /\ IF r.total = 0 THEN r.percentage = 0
              ELSE /\ 2 * r.percentage * r.total <= 2 * 100 * r.completed + r.total
                   /\ 2 * r.percentage * r.total > 2 * 100 * r.completed - r.total
           /\ 0 <= r.completed /\ r.completed <= r.total
           /\ 0 <= r.percentage /\ r.percentage <= 100
           /\ (r.total = 1 /\ done # {}) =>
                  r = [total |-> 1, completed |-> 1, percentage |-> 100]
C24_Witness ==
    /\ last.op = "calculateCourseProgress"
    /\ frame.fn = "calculateCourseProgress"
    /\ frame.course.id \notin {c.id : c \in SeqToSet(SampleCourses)}
    /\ frame.course = FindCourse(state, frame.course.id)[1]
    /\ frame.completedTaskIds = state.completionState.completedTaskIds
    /\ frame.result = [total |-> 1, completed |-> 1, percentage |-> 100]
C24_Witness_Rounded ==
    /\ frame.fn = "calculateCourseProgress"
    /\ frame.result = [total |-> 3, completed |-> 2, percentage |-> 67]

\* the completion history's keys are the completed ids, each listed once
Agrees(cs) ==
    /\ DOMAIN cs.completionHistory = SeqToSet(cs.completedTaskIds)
    /\ Cardinality(SeqToSet(cs.completedTaskIds)) = Len(cs.completedTaskIds)
CompletionOps == {"toggleTaskCompletion", "updateTaskStatus", "deleteTask", "undo"}

\* C25 as stated: from a planner state whose completion history's keys are
\* exactly its completed ids, without duplicates, each of toggleTaskCompletion,
\* updateTaskStatus, deleteTask and undo leads to such a state again
C25_AgreementKept ==
    [][(last'.op \in CompletionOps /\ Agrees(state.completionState))
          => Agrees(state'.completionState)]_vars

\* C25: the agreement is kept by toggleTaskCompletion, updateTaskStatus,
\* deleteTask and undo from every state where it holds of the completion
\* state and of every snapshot on the undo stack, and it then holds of the
\* snapshots again
AgreesThroughout(s) ==
    /\ Agrees(s.completionState)
    /\ \A i \in 1..Len(s.undoStack) : Agrees(s.undoStack[i])
C25_AgreementKeptWithSnapshots ==
    [][(last'.op \in CompletionOps /\ AgreesThroughout(state))
          => AgreesThroughout(state')]_vars
C25_Witness ==
    /\ last.op = "undo"
    /\ last.popped
    /\ AgreesThroughout(state)
    /\ Len(state.completionState.completedTaskIds) > 0
    /\ Len(state.undoStack) > 0

\* C26: whenever no habit operation is pending (after the load, and after
\* logHabit, deleteHabit and importHabits whose writes all succeeded have
\* completed) the log map in memory holds, for every habit, exactly the logs
\* the record store holds for it, so a reload shows the same logs
MemoryLogs(habitId) == SeqToSet(GetLogs(hstate, habitId))
C26_MemoryMatchesStore ==
    (dbQueue = <<>> /\ ~hstate.isLoading) =>
        \A h \in DOMAIN hstate.habitLogs \cup {l.habitId : l \in logStore} :
            MemoryLogs(h) = LogsOfHabit(logStore, h)

\* C27: nothing is written to key-value storage for a store that is loading:
\* a save of the planner's aggregates runs and changes them only when the
\* planner has loaded, a save of the habits runs and changes the persisted
\* habit list only when the habits have loaded, and after a failed load of the
\* habits the persisted habit list is never overwritten
C27_NoSaveWhileLoading ==
    /\ [][(last'.op = "saved" /\ last'.store = "planner") => ~state.isLoading]_vars
    /\ [][(last'.op = "saved" /\ last'.store = "habits") => ~hstate.isLoading]_vars
    /\ [][Persisted(localStorage') # Persisted(localStorage) => ~state.isLoading]_vars
    /\ [][localStorage'.habits # localStorage.habits
            => /\ ~hstate.isLoading
               /\ hstate.error # "habits could not be loaded"]_vars
    /\ [](\A i \in 1..Len(timers) :
             IF timers[i].store = "planner" THEN ~state.isLoading ELSE ~hstate.isLoading)
C27_Witness ==
    /\ last.op = "saved"
    /\ last.store = "planner"
    /\ hstate.error = "habits could not be loaded"
    /\ hstate.habits # localStorage.habits
    /\ localStorage.habits = StoredBusy.habits
    /\ timers = <<>>

\* C30: in every state reached by uploads of notes, deletions of notes and
\* deletions of courses, every lecture-note metadata record has a payload of
\* the same id in the record store and names a course that exists; an upload
\* whose write failed adds no metadata, and a deletion whose delete failed
\* keeps the metadata
HasPayload(n) == \E p \in noteStore : p.id = n.id
C30_NotesJoined ==
    /\ [](\A n \in SeqToSet(state.lectureNotesMeta) :
             HasPayload(n) /\ n.courseId \in CourseIds(state))
    /\ [][last'.op = "noteRequestFailed"
            => state'.lectureNotesMeta = state.lectureNotesMeta]_vars

====
